---- MODULE Spec2Model ----
(***************************************************************************)
(* A model of the probabilistic scene grammar of scene_generation:         *)
(* the node types of models/probabilistic_scene_grammar_nodes.py (OrNode,  *)
(* AndNode, CovaryingSetNode, IndependentSetNode), their constructors and  *)
(* their sample_production_rules / score_production_rules operations; the  *)
(* pose algebra (planar x, y, theta and spatial xyz + rpy) and the         *)
(* pose-bearing production rules of PlaceSetting, Table and DishBin.       *)
(*                                                                         *)
(* Representation.                                                         *)
(*  - A production rule is an opaque identity (a number of RuleIds); a     *)
(*    node's production_rules is a Python list of them, modelled as a      *)
(*    sequence.  Python indices are 0-based: Index0 is list.index.         *)
(*  - A probability is an exact fraction num/den; a log-probability is     *)
(*    kept as the fraction it is the logarithm of, log 0 being -infinity.  *)
(*  - A call ends in one outcome: a returned rule list, a returned         *)
(*    log-probability (finite or -inf), a constructed node, or             *)
(*    a raised exception named by its Python class.                        *)
(*  - Distributions validate their arguments and the values they score:    *)
(*    the entry points of the repository call pyro.enable_validation(True) *)
(*    before they build a grammar (probabilistic_scene_grammar_fitting.py, *)
(*    probabilistic_scene_grammar_nodes_dish_bin.py).                      *)
(*  - Poses live on a lattice: coordinates are integers and angles are     *)
(*    whole quarter turns (theta = k stands for k * pi / 2), where sine    *)
(*    and cosine are exactly -1, 0 or 1 and every operation of the pose    *)
(*    algebra is exact.  Angles are not wrapped, as in the code.           *)
(*  - The parameter store is fresh at each construction                    *)
(*    (pyro.clear_param_store() precedes it in the drivers), so pyro.param *)
(*    returns the initial value it is given.                               *)
(***************************************************************************)
EXTENDS Integers, Sequences, FiniteSets, TLC

VARIABLES
    node,    \* the node object under test (NoNode before construction)
    call,    \* the last call made on a node: the operation, its arguments
    result,  \* the outcome of the last call made on a node
    pcall,   \* the last call of the pose algebra or of a production rule
    presult, \* its outcome
    tree,    \* the parse tree grown from the node, and its two scores
    run,     \* one call of ProbabilisticSceneGrammarModel.model
    fit,     \* one call of calc_score_and_backprob_async and its workers
    drv,     \* one run of a scene-generation driver's __main__
    loop,    \* the training loop of the fitting script's __main__
    proj,    \* one construction of ProjectToFeasibilityDist
    gen,     \* one run of the tabletop generator's __main__ and its pool
    exp      \* one expansion of a Table root, with its names and site labels

nodeVars == <<node, call, result>>
poseVars == <<pcall, presult>>
treeVars == <<tree>>
vars == <<node, call, result, pcall, presult, tree, run, fit, drv, loop, proj, gen, exp>>

\* what the calls on a node, the calls on a pose or a rule, the parse tree
\* and the work-list expansion leave alone
otherThanNode == <<poseVars, treeVars, run, fit, drv, loop, proj, gen, exp>>
otherThanPose == <<nodeVars, treeVars, run, fit, drv, loop, proj, gen, exp>>
otherThanTree == <<nodeVars, poseVars, run, fit, drv, loop, proj, gen, exp>>
otherThanRun == <<nodeVars, poseVars, treeVars, fit, drv, loop, proj, gen, exp>>
otherThanFit == <<nodeVars, poseVars, treeVars, run, drv, loop, proj, gen, exp>>
otherThanDrv == <<nodeVars, poseVars, treeVars, run, fit, loop, proj, gen, exp>>
otherThanLoop == <<nodeVars, poseVars, treeVars, run, drv, proj, gen, exp>>
otherThanProj == <<nodeVars, poseVars, treeVars, run, fit, drv, loop, gen, exp>>
otherThanGen == <<nodeVars, poseVars, treeVars, run, fit, drv, loop, proj, exp>>
otherThanExp == <<nodeVars, poseVars, treeVars, run, fit, drv, loop, proj, gen>>

(***************************************************************************)
(* Bounds of the model.                                                    *)
(***************************************************************************)
\* most production rules a node is built over
MaxRules == 2
\* largest relative weight (Or weight, hint value, remaining_weight)
MaxWeight == 2
\* most entries of a production_weights_hints dictionary (SpecCtor)
MaxHints == 2
\* Bernoulli probabilities are the fractions k/ProbDen, k in 0..ProbDen
ProbDen == 2
\* a hint tuple lists at most this many indices: the lengths 0, 1, 2
HintLens == {0, 1, 2}
\* largest coordinate of a pose that is an input
MaxCoord == 1
\* largest angle of a pose that is an input, in quarter turns
MaxTheta == 2
\* object rules of a PlaceSetting in the work-list expansion (the code
\* lists 8)
MaxObjects == 2
\* most worker processes of a minibatch (n), and most learned parameters
MaxWorkers == 2
MaxParams == 2
\* most scenes a driver generates, and most objects of a scene
MaxScenes == 2
MaxSceneObjects == 2
\* most steps of the training loop, and the largest loss a call returns
MaxSteps == 6
MaxLoss == 1
\* most rows of a batch, and most objects placed before the new one
MaxBatch == 2
MaxEarlier == 2
\* most worker indices of a generator run (n_examples)
MaxExamples == 2

RuleIds == 1..(MaxRules + 1)

SeqsUpTo(S, n) == UNION {[1..k -> S] : k \in 0..n}

\* the rule lists nodes are built over: distinct rules, in ascending identity
RuleLists ==
    {s \in SeqsUpTo(RuleIds, MaxRules) :
        \A i, j \in 1..Len(s) : i < j => s[i] < s[j]}

\* the rule lists handed to sample/score as observations: any list
ObsLists == SeqsUpTo(RuleIds, MaxRules)

Weights == 0..MaxWeight

(***************************************************************************)
(* Python list helpers.                                                    *)
(***************************************************************************)
Member(list, x) == \E i \in 1..Len(list) : list[i] = x

\* list.index(x): the 0-based position of the first occurrence
Index0(list, x) ==
    CHOOSE i \in 0..(Len(list) - 1) :
        /\ list[i + 1] = x
        /\ \A j \in 0..(i - 1) : list[j + 1] # x

ToSet(list) == {list[i] : i \in 1..Len(list)}

RECURSIVE SumSeq(_)
SumSeq(s) == IF Len(s) = 0 THEN 0 ELSE s[1] + SumSeq(Tail(s))

RECURSIVE ProdSeq(_)
ProdSeq(s) == IF Len(s) = 0 THEN 1 ELSE s[1] * ProdSeq(Tail(s))

\* the sub-list of list at the positions where keep is TRUE, in list order
RECURSIVE Select(_, _)
Select(list, keep) ==
    IF Len(list) = 0 THEN <<>>
    ELSE (IF keep[1] THEN <<list[1]>> ELSE <<>>)
         \o Select(Tail(list), Tail(keep))

(***************************************************************************)
(* Outcomes of a call.                                                     *)
(***************************************************************************)
Out(kind, exc, rules, drawn, num, den) ==
    [kind |-> kind, exc |-> exc, rules |-> rules, drawn |-> drawn,
     num |-> num, den |-> den]

NoResult == Out("none", "", <<>>, <<>>, 0, 1)
Constructed == Out("constructed", "", <<>>, <<>>, 0, 1)
Raised(exc) == Out("raise", exc, <<>>, <<>>, 0, 1)
\* a returned rule list; drawn is the value of the sample site
Returned(rules, drawn) == Out("rules", "", rules, drawn, 0, 1)
\* torch.tensor(-np.inf), and log(0)
NegInf == Out("neg_inf", "", <<>>, <<>>, 0, 1)
\* the finite log-probability log(num/den), num > 0
LogProb(num, den) ==
    IF num = 0 THEN NegInf
    ELSE Out("logp", "", <<>>, <<>>, num, den)

(***************************************************************************)
(* Node objects.                                                           *)
(*   weights: Or: production_weights; CovaryingSet: the numerators of      *)
(*            exhaustive_set_weights; IndependentSet: the numerators of    *)
(*            production_probs; And: none.                                 *)
(*   total:   the denominator the weights are read over.                   *)
(***************************************************************************)
MkNode(kind, rules, weights, total) ==
    [kind |-> kind, production_rules |-> rules, weights |-> weights,
     total |-> total]

NoNode == MkNode("none", <<>>, <<>>, 1)

\* what a constructor leaves behind: the object (or none) and the outcome
Built(n) == [node |-> n, result |-> Constructed]
Failed(exc) == [node |-> NoNode, result |-> Raised(exc)]

\* the outcomes dist.Categorical(w / total) can draw
CategoricalSupport(w) == {i \in 0..(Len(w) - 1) : w[i + 1] > 0}

\* the obs_production_rules argument: None, or a rule list
None == [given |-> FALSE, rules |-> <<>>]
Obs(rules) == [given |-> TRUE, rules |-> rules]

(***************************************************************************)
(* OrNode                                                                  *)
(***************************************************************************)
OrNode_init(production_rules, production_weights) ==
    IF Len(production_weights) # Len(production_rules)
    THEN {Failed("ValueError")}
    ELSE IF Len(production_weights) = 0
    THEN {Failed("ValueError")}
    ELSE IF SumSeq(production_weights) = 0
    \* dist.Categorical normalises by the sum: 0/0 is NaN, which the
    \* validation of its probs refuses
    THEN {Failed("ValueError")}
    ELSE {Built(MkNode("Or", production_rules, production_weights,
                       SumSeq(production_weights)))}

\* returns [exc, val]: an exception raised on the way, or the value
Val(v) == [exc |-> "", neginf |-> FALSE, val |-> v]
Exc(e) == [exc |-> e, neginf |-> FALSE, val |-> 0]
\* torch.tensor(-np.inf) returned in place of a selection
NegInfTensor == [exc |-> "", neginf |-> TRUE, val |-> 0]

OrNode_recover_active_rule(self, production_rules) ==
    IF Len(production_rules) = 0 THEN Exc("IndexError")
    ELSE IF ~Member(self.production_rules, production_rules[1])
    THEN Exc("ValueError")   \* the warning is printed, then list.index raises
    ELSE Val(Index0(self.production_rules, production_rules[1]))

OrNode_sample_production_rules(self, obs) ==
    IF obs.given
    THEN LET active_rule == OrNode_recover_active_rule(self, obs.rules)
         IN  IF active_rule.exc # "" THEN {Raised(active_rule.exc)}
             \* pyro.sample returns the observed value
             ELSE {Returned(<<self.production_rules[active_rule.val + 1]>>,
                            <<active_rule.val>>)}
    ELSE {Returned(<<self.production_rules[i + 1]>>, <<i>>) :
            i \in CategoricalSupport(self.weights)}

OrNode_score_production_rules(self, production_rules) ==
    IF Len(production_rules) # 1 THEN {NegInf}
    ELSE LET active_rule == OrNode_recover_active_rule(self, production_rules)
         IN  IF active_rule.exc # "" THEN {Raised(active_rule.exc)}
             ELSE {LogProb(self.weights[active_rule.val + 1], self.total)}

(***************************************************************************)
(* AndNode                                                                 *)
(***************************************************************************)
AndNode_init(production_rules) ==
    IF Len(production_rules) = 0 THEN {Failed("ValueError")}
    ELSE {Built(MkNode("And", production_rules, <<>>, 1))}

AndNode_sample_production_rules(self, obs) ==
    IF obs.given /\ obs.rules # self.production_rules
    THEN {Raised("AssertionError")}
    ELSE {Returned(self.production_rules, <<>>)}

AndNode_score_production_rules(self, production_rules) ==
    IF production_rules # self.production_rules THEN {NegInf}
    ELSE {NegInf}

(***************************************************************************)
(* CovaryingSetNode                                                        *)
(***************************************************************************)
\* a hint: (int tuple) : (float weight)
Hint(tuple, val) == [tuple |-> tuple, val |-> val]

\* combination_index += 2**index, over the indices of a hint tuple
RECURSIVE combination_index(_)
combination_index(hint) ==
    IF Len(hint) = 0 THEN 0 ELSE 2^hint[1] + combination_index(Tail(hint))

\* the loop over production_weights_hints.keys(), in iteration order;
\* [exc, w]: the exception that ended it, or the weights it leaves
RECURSIVE apply_hints(_, _, _)
apply_hints(init_weights, hints, n) ==
    IF Len(hints) = 0 THEN [exc |-> "", w |-> init_weights]
    ELSE LET hint == hints[1].tuple
             val == hints[1].val
             ci == combination_index(hint)
         IN  IF val < 0 THEN [exc |-> "AssertionError", w |-> init_weights]
             ELSE IF \E i \in 1..Len(hint) : hint[i] < 0 \/ hint[i] >= n
             THEN [exc |-> "AssertionError", w |-> init_weights]
             ELSE IF ci >= Len(init_weights)
             THEN [exc |-> "IndexError", w |-> init_weights]
             ELSE apply_hints([init_weights EXCEPT ![ci + 1] = val],
                              Tail(hints), n)

num_combinations(production_rules) == 2^Len(production_rules) + 1

\* CovaryingSetNode_init normalising by the sum taken before the hints
\* are written into the weights
CovaryingSetNode_init_early_sum(production_rules, production_weights_hints, remaining_weight) ==
    LET n == Len(production_rules)
        ones == [i \in 1..num_combinations(production_rules) |->
                    remaining_weight]
        hinted == apply_hints(ones, production_weights_hints, n)
        total == SumSeq(ones)
    IN  IF hinted.exc # "" THEN {Failed(hinted.exc)}
        ELSE IF total = 0 THEN {Failed("ValueError")}
        ELSE {Built(MkNode("CovaryingSet", production_rules, hinted.w,
                           total))}

CovaryingSetNode_init(production_rules, production_weights_hints, remaining_weight) ==
    IF remaining_weight < 0 THEN {Failed("AssertionError")}
    ELSE
    LET n == Len(production_rules)
        ones == [i \in 1..num_combinations(production_rules) |->
                    remaining_weight]
        hinted == apply_hints(ones, production_weights_hints, n)
        total == SumSeq(hinted.w)
    IN  IF hinted.exc # "" THEN {Failed(hinted.exc)}
        ELSE IF total = 0
        \* 0/0: every weight is NaN, and dist.Categorical(logits=log(NaN))
        \* fails the validation of its logits
        THEN {Failed("ValueError")}
        ELSE {Built(MkNode("CovaryingSet", production_rules, hinted.w,
                           total))}

\* Categorical.log_prob of a value outside its support 0..len-1 (an index
\* too large, or tensor(-inf)): the value fails validation
CategoricalRejects == {Raised("ValueError")}

RECURSIVE CovaryingSetNode_recover_loop(_, _, _)
CovaryingSetNode_recover_loop(self, production_rules, selected_rules) ==
    IF Len(production_rules) = 0 THEN Val(selected_rules)
    ELSE LET rule == production_rules[1]
         IN  IF ~Member(self.production_rules, rule) THEN NegInfTensor
             ELSE CovaryingSetNode_recover_loop(
                      self, Tail(production_rules),
                      selected_rules + 2^Index0(self.production_rules, rule))

CovaryingSetNode_recover_selected_rules(self, production_rules) ==
    LET r == CovaryingSetNode_recover_loop(self, production_rules, 0)
    IN  IF r.neginf THEN r
        ELSE IF ~(r.val >= 0 /\ r.val <= Len(self.weights))
        THEN Exc("AssertionError")
        ELSE r

\* CovaryingSetNode_select reading bit k+1 for rule k (an off-by-one shift)
CovaryingSetNode_select_shifted(self, selected_rules) ==
    Select(self.production_rules,
           [k \in 1..Len(self.production_rules) |->
               (selected_rules \div 2^k) % 2 = 1])

\* for k, rule in enumerate(production_rules): if (selected >> k) & 1
CovaryingSetNode_select(self, selected_rules) ==
    Select(self.production_rules,
           [k \in 1..Len(self.production_rules) |->
               (selected_rules \div 2^(k - 1)) % 2 = 1])

CovaryingSetNode_sample_production_rules(self, obs) ==
    IF obs.given
    THEN LET selected_rules ==
                 CovaryingSetNode_recover_selected_rules(self, obs.rules)
         IN  IF selected_rules.exc # "" THEN {Raised(selected_rules.exc)}
             ELSE IF selected_rules.neginf
             \* (tensor(-inf) >> k) & 1 is not defined on a float tensor;
             \* with no rule the loop never evaluates it
             THEN (IF Len(self.production_rules) = 0
                   THEN {Returned(<<>>, <<>>)}
                   ELSE {Raised("RuntimeError")})
             ELSE {Returned(CovaryingSetNode_select(self, selected_rules.val),
                            <<selected_rules.val>>)}
    ELSE {Returned(CovaryingSetNode_select(self, i), <<i>>) :
            i \in CategoricalSupport(self.weights)}

CovaryingSetNode_score_production_rules(self, production_rules) ==
    LET selected_rules ==
            CovaryingSetNode_recover_selected_rules(self, production_rules)
    IN  IF selected_rules.exc # "" THEN {Raised(selected_rules.exc)}
        ELSE IF selected_rules.neginf THEN CategoricalRejects
        ELSE IF selected_rules.val >= Len(self.weights)
        THEN CategoricalRejects
        ELSE {LogProb(self.weights[selected_rules.val + 1], self.total)}

(***************************************************************************)
(* IndependentSetNode                                                      *)
(***************************************************************************)
IndependentSetNode_init(production_rules, production_probs) ==
    IF Len(production_probs) # Len(production_rules)
    THEN {Failed("ValueError")}
    ELSE {Built(MkNode("IndependentSet", production_rules, production_probs,
                       ProbDen))}

RECURSIVE IndependentSetNode_recover_loop(_, _, _)
IndependentSetNode_recover_loop(self, production_rules, selected_rules) ==
    IF Len(production_rules) = 0 THEN Val(selected_rules)
    ELSE LET rule == production_rules[1]
         IN  IF ~Member(self.production_rules, rule) THEN NegInfTensor
             ELSE IndependentSetNode_recover_loop(
                      self, Tail(production_rules),
                      [selected_rules EXCEPT
                          ![Index0(self.production_rules, rule) + 1] = 1])

IndependentSetNode_recover_selected_rules(self, production_rules) ==
    IndependentSetNode_recover_loop(
        self, production_rules,
        [k \in 1..Len(self.production_rules) |-> 0])

\* for k, rule in enumerate(production_rules): if selected_rules[k] == 1
IndependentSetNode_select(self, selected_rules) ==
    Select(self.production_rules,
           [k \in 1..Len(self.production_rules) |-> selected_rules[k] = 1])

\* the vectors dist.Bernoulli(probs) can draw
BernoulliSupport(probs) ==
    {v \in [1..Len(probs) -> {0, 1}] :
        \A k \in 1..Len(probs) :
            /\ v[k] = 1 => probs[k] > 0
            /\ v[k] = 0 => probs[k] < ProbDen}

\* Bernoulli.log_prob(value).sum() for a 0/1 vector
BernoulliLogProb(probs, value) ==
    LogProb(ProdSeq([k \in 1..Len(probs) |->
                        IF value[k] = 1 THEN probs[k]
                        ELSE ProbDen - probs[k]]),
            ProbDen^Len(probs))

IndependentSetNode_sample_production_rules(self, obs) ==
    IF obs.given
    THEN LET selected_rules ==
                 IndependentSetNode_recover_selected_rules(self, obs.rules)
         IN  IF selected_rules.neginf
             \* selected_rules[k] indexes a 0-dimensional tensor
             THEN (IF Len(self.production_rules) = 0
                   THEN {Returned(<<>>, <<>>)}
                   ELSE {Raised("IndexError")})
             ELSE {Returned(IndependentSetNode_select(self,
                                                      selected_rules.val),
                            selected_rules.val)}
    ELSE {Returned(IndependentSetNode_select(self, v), v) :
            v \in BernoulliSupport(self.weights)}

IndependentSetNode_score_production_rules(self, production_rules) ==
    LET selected_rules ==
            IndependentSetNode_recover_selected_rules(self, production_rules)
    IN  IF selected_rules.neginf
        \* Bernoulli.log_prob(tensor(-inf)): the value fails validation
        THEN {Raised("ValueError")}
        ELSE {BernoulliLogProb(self.weights, selected_rules.val)}

(***************************************************************************)
(* Pose algebra, planar: chain_pose_transforms and invert_pose.            *)
(***************************************************************************)
\* cos and sin of k quarter turns
Cos(k) == CASE k % 4 = 0 -> 1 [] k % 4 = 1 -> 0 [] k % 4 = 2 -> -1
            [] k % 4 = 3 -> 0
Sin(k) == CASE k % 4 = 0 -> 0 [] k % 4 = 1 -> 1 [] k % 4 = 2 -> 0
            [] k % 4 = 3 -> -1

chain_pose_transforms(p_w1, p_12) ==
    LET r == p_w1[3]
    IN  <<p_w1[1] + p_12[1] * Cos(r) - p_12[2] * Sin(r),
          p_w1[2] + p_12[1] * Sin(r) + p_12[2] * Cos(r),
          p_w1[3] + p_12[3]>>

\* invert_pose without the sign change of the angle in the rotation
invert_pose_unrotated(pose) ==
    LET r == pose[3]
    IN  <<-(pose[1] * Cos(r) - pose[2] * Sin(r)),
          -(pose[1] * Sin(r) + pose[2] * Cos(r)),
          -r>>

invert_pose(pose) ==
    LET r == pose[3]
    IN  <<-(pose[1] * Cos(-r) - pose[2] * Sin(-r)),
          -(pose[1] * Sin(-r) + pose[2] * Cos(-r)),
          -r>>

(***************************************************************************)
(* Pose algebra, spatial: 4x4 homogeneous transforms, kept as the rotation *)
(* R (three rows) and the translation t.                                   *)
(***************************************************************************)
MatMul(A, B) ==
    [i \in 1..3 |-> [j \in 1..3 |->
        A[i][1] * B[1][j] + A[i][2] * B[2][j] + A[i][3] * B[3][j]]]

MatVec(A, v) ==
    [i \in 1..3 |-> A[i][1] * v[1] + A[i][2] * v[2] + A[i][3] * v[3]]

Transpose(A) == [i \in 1..3 |-> [j \in 1..3 |-> A[j][i]]]

\* torch.mm of two transforms
mm(a, b) ==
    [R |-> MatMul(a.R, b.R),
     t |-> [i \in 1..3 |-> MatVec(a.R, b.t)[i] + a.t[i]]]

rotation_tensor(theta, phi, psi) ==
    LET rot_x == << <<1, 0, 0>>,
                    <<0, Cos(theta), -Sin(theta)>>,
                    <<0, Sin(theta), Cos(theta)>> >>
        rot_y == << <<Cos(phi), 0, Sin(phi)>>,
                    <<0, 1, 0>>,
                    <<-Sin(phi), 0, Cos(phi)>> >>
        rot_z == << <<Cos(psi), -Sin(psi), 0>>,
                    <<Sin(psi), Cos(psi), 0>>,
                    <<0, 0, 1>> >>
    IN  MatMul(rot_z, MatMul(rot_y, rot_x))

pose_to_tf_matrix(pose) ==
    [R |-> rotation_tensor(pose[4], pose[5], pose[6]),
     t |-> <<pose[1], pose[2], pose[3]>>]

\* torch.atan2 in quarter turns, on the axes
Atan2(y, x) ==
    CASE x > 0 /\ y = 0 -> 0
      [] x = 0 /\ y > 0 -> 1
      [] x < 0 /\ y = 0 -> 2
      [] x = 0 /\ y < 0 -> -1
      [] x = 0 /\ y = 0 -> 0

\* torch.sqrt of a perfect square
Sqrt(v) == CHOOSE s \in 0..v : s * s = v

tf_matrix_to_pose(tf) ==
    LET R == tf.R
        sy == Sqrt(R[1][1] * R[1][1] + R[2][1] * R[2][1])
    IN  IF sy >= 1   \* sy >= 1E-6: not singular
        THEN <<tf.t[1], tf.t[2], tf.t[3],
               Atan2(R[3][2], R[3][3]),
               Atan2(-R[3][1], sy),
               Atan2(R[2][1], R[1][1])>>
        ELSE <<tf.t[1], tf.t[2], tf.t[3],
               Atan2(-R[2][3], R[2][2]),
               Atan2(-R[3][1], sy),
               0>>

invert_tf(tf) ==
    LET Rt == Transpose(tf.R)
    IN  [R |-> Rt, t |-> [i \in 1..3 |-> -MatVec(Rt, tf.t)[i]]]

(***************************************************************************)
(* Pose-bearing production rules.  A rule call is                          *)
(*   [rule, object_type, parent, pose, obs, drawn]:                        *)
(* the rule's class, its product type, the parent's pose, the rule's own   *)
(* pose (Table, DishBin), the obs_products argument, and the value the     *)
(* rule's sample site draws when it is not observed.                       *)
(***************************************************************************)
Product(type, pose) == [type |-> type, pose |-> pose]

NoProducts == [given |-> FALSE, products |-> <<>>]
ObsProducts(products) == [given |-> TRUE, products |-> products]

POut(kind, exc, products, value) ==
    [kind |-> kind, exc |-> exc, products |-> products, value |-> value]
NoPResult == POut("none", "", <<>>, <<>>)
PRaised(exc) == POut("raise", exc, <<>>, <<>>)
PReturned(products) == POut("products", "", products, <<>>)
\* a pose returned
PValue(pose) == POut("pose", "", <<>>, pose)
\* torch.tensor(-np.inf) returned by score_products
PNegInf == POut("neg_inf", "", <<>>, <<>>)
\* offset_dist.log_prob(rel).sum(): the finite log-density of a Normal at
\* the offset rel, kept as the offset it is taken at
PLogProb(rel) == POut("logp", "", <<>>, rel)

\* PlaceSetting.ObjectProductionRule
ObjectProductionRule_recover_rel_pose_from_abs_pose(parent, abs_pose) ==
    chain_pose_transforms(invert_pose(parent), abs_pose)

ObjectProductionRule_call(self, parent, obs_products, drawn) ==
    IF obs_products.given
       /\ ~(/\ Len(obs_products.products) = 1
            /\ obs_products.products[1].type = self.object_type)
    THEN PRaised("AssertionError")
    ELSE LET rel_pose ==
                 IF obs_products.given
                 THEN ObjectProductionRule_recover_rel_pose_from_abs_pose(
                          parent, obs_products.products[1].pose)
                 ELSE drawn
         IN  PReturned(<<Product(self.object_type,
                                 chain_pose_transforms(parent, rel_pose))>>)

ObjectProductionRule_score_products(self, parent, products) ==
    IF Len(products) # 1 \/ products[1].type # self.object_type
    THEN PNegInf
    ELSE PLogProb(ObjectProductionRule_recover_rel_pose_from_abs_pose(
                      parent, products[1].pose))

\* Table.PlaceSettingProductionRule
PlaceSettingProductionRule_recover_rel_offset_from_abs_offset(self, parent, abs_offset) ==
    LET pose_in_world == chain_pose_transforms(parent, self.pose)
    IN  chain_pose_transforms(invert_pose(pose_in_world), abs_offset)

PlaceSettingProductionRule_call(self, parent, obs_products, drawn) ==
    IF obs_products.given
       /\ ~(/\ Len(obs_products.products) = 1
            /\ obs_products.products[1].type = "PlaceSetting")
    THEN PRaised("AssertionError")
    ELSE \* obs_rel_offset is computed and not handed to pyro.sample
         LET rel_offset == drawn
             pose_in_world == chain_pose_transforms(parent, self.pose)
             abs_offset == chain_pose_transforms(pose_in_world, rel_offset)
         IN  PReturned(<<Product("PlaceSetting", abs_offset)>>)

PlaceSettingProductionRule_score_products(self, parent, products) ==
    IF Len(products) # 1 \/ products[1].type # "PlaceSetting"
    THEN PNegInf
    ELSE PLogProb(
             PlaceSettingProductionRule_recover_rel_offset_from_abs_offset(
                 self, parent, products[1].pose))

\* DishBin.ObjectProductionRule.  Its constructor sets pose and
\* product_type and then hands ProductionRule.__init__ a keyword it does
\* not take; the methods below are the class's methods, on an object that
\* holds the fields the constructor had set.
DishBin_ObjectProductionRule_init(pose, product_type) ==
    PRaised("TypeError")

DishBin_recover_rel_offset_from_abs_offset(self, parent, abs_offset) ==
    LET my_pose_tf == pose_to_tf_matrix(self.pose)
        parent_pose_tf == pose_to_tf_matrix(parent)
        my_pose_in_world_tf == mm(parent_pose_tf, my_pose_tf)
        rel_tf == mm(invert_tf(my_pose_tf), pose_to_tf_matrix(abs_offset))
    IN  tf_matrix_to_pose(rel_tf)

DishBin_sample_products(self, parent, obs_products, drawn) ==
    IF obs_products.given
    THEN IF ~(/\ Len(obs_products.products) = 1
              /\ obs_products.products[1].type = "PlaceSetting")
         THEN PRaised("AssertionError")
         \* pose_to_tf_matrix reads pose[3] of the observed pose
         ELSE IF Len(obs_products.products[1].pose) < 6
         THEN PRaised("IndexError")
         ELSE PReturned(obs_products.products)
    ELSE LET rel_offset == drawn
             my_pose_tf == pose_to_tf_matrix(self.pose)
             parent_pose_tf == pose_to_tf_matrix(parent)
             my_pose_in_world_tf == mm(parent_pose_tf, my_pose_tf)
             offset_tf == pose_to_tf_matrix(rel_offset)
             abs_offset == tf_matrix_to_pose(mm(my_pose_in_world_tf,
                                                offset_tf))
         IN  PReturned(<<Product(self.object_type, abs_offset)>>)

DishBin_score_products(self, parent, products) ==
    IF Len(products) # 1 \/ products[1].type # self.object_type
    THEN PNegInf
    \* pose_to_tf_matrix reads pose[3] of the product's pose
    ELSE IF Len(products[1].pose) < 6 THEN PRaised("IndexError")
    ELSE PLogProb(DishBin_recover_rel_offset_from_abs_offset(
                      self, parent, products[1].pose))

(***************************************************************************)
(* Dynamic dispatch on the node's class.                                   *)
(***************************************************************************)
sample_production_rules(self, obs) ==
    CASE self.kind = "Or" -> OrNode_sample_production_rules(self, obs)
      [] self.kind = "And" -> AndNode_sample_production_rules(self, obs)
      [] self.kind = "CovaryingSet" ->
            CovaryingSetNode_sample_production_rules(self, obs)
      [] self.kind = "IndependentSet" ->
            IndependentSetNode_sample_production_rules(self, obs)

score_production_rules(self, production_rules) ==
    CASE self.kind = "Or" ->
            OrNode_score_production_rules(self, production_rules)
      [] self.kind = "And" ->
            AndNode_score_production_rules(self, production_rules)
      [] self.kind = "CovaryingSet" ->
            CovaryingSetNode_score_production_rules(self, production_rules)
      [] self.kind = "IndependentSet" ->
            IndependentSetNode_score_production_rules(self, production_rules)

(***************************************************************************)
(* The calls, as actions.  A constructor call is made once, on no node.    *)
(* A sample or score call is made on the node as constructed: no call      *)
(* changes the node, so a call made after another one finds the same node  *)
(* and ends as it would have ended first.  The one sequence followed is    *)
(* that of scoring the rules a sample has just returned.                   *)
(***************************************************************************)
MkCall(op, kind, rules, weights, hints, rw) ==
    [op |-> op, kind |-> kind, rules |-> rules, weights |-> weights,
     hints |-> hints, rw |-> rw]

NoCall == MkCall("none", "none", <<>>, <<>>, <<>>, 0)

\* index tuples over the rules of a node of n rules
HintTuples(n) == UNION {[1..l -> 0..(n - 1)] : l \in HintLens}

\* hint dictionaries of at most k entries, as the list of their items in
\* iteration order; the keys of a dictionary are distinct tuples
HintMaps(n, k) ==
    {h \in SeqsUpTo({Hint(t, v) : t \in HintTuples(n), v \in Weights}, k) :
        \A i, j \in 1..Len(h) : i # j => h[i].tuple # h[j].tuple}

\* the rule list of the first n rules
FirstRules(n) == [i \in 1..n |-> i]

PCall(op, rule, self, parent, obs, drawn) ==
    [op |-> op, rule |-> rule, self |-> self, parent |-> parent,
     obs |-> obs, drawn |-> drawn]

\* the fields of a rule object that its call reads
Rule(object_type, pose) == [object_type |-> object_type, pose |-> pose]
NoRule == Rule("", <<>>)

NoPCall == PCall("none", "", NoRule, <<>>, NoProducts, <<>>)

\* planar poses, for the pose algebra
PlanarPoses ==
    {<<x, y, t>> : x \in -MaxCoord..MaxCoord, y \in -MaxCoord..MaxCoord,
                   t \in -MaxTheta..MaxTheta}

\* planar poses handed to a rule: parent poses, observed poses, offsets
RulePoses ==
    {<<x, y, t>> : x \in 0..MaxCoord, y \in 0..MaxCoord, t \in 0..MaxTheta}

\* spatial offsets
SpatialPoses ==
    {<<x, 0, 0, a, b, c>> : x \in 0..MaxCoord, a \in -MaxTheta..MaxTheta,
                            b \in -MaxTheta..MaxTheta,
                            c \in -MaxTheta..MaxTheta}

\* DishBin.__init__: its pose, and the product types of its rules
DishBinPose == <<0, 0, 0, 0, 0, 0>>
DishBinProductTypes == {"Mug_1", "Plate_11in"}

\* spatial poses of a parent and of a rule: DishBin's own pose, and poses
\* moved along x and turned about z
FramePoses ==
    {DishBinPose} \cup {<<x, 0, 0, 0, 0, c>> : x \in 0..MaxCoord, c \in 0..1}

\* the observed product lists tried: none, one, or the same one twice
ObsProductLists(types, poses) ==
    {<<>>}
    \cup {<<Product(t, p)>> : t \in types, p \in poses}
    \cup {<<Product(t, p), Product(t, p)>> : t \in types, p \in poses}

\* PlaceSetting.__init__: the object types of its rules
object_types_by_name == {"Plate", "Cup", "Fork"}

\* Table.__init__, in units of 0.05: the table's pose, the radius, and the
\* rule pose of place setting location k out of 4
TablePose == <<10, 10, 0>>
table_radius == 9
PlaceSettingLocation(k) == <<table_radius * Cos(k), table_radius * Sin(k), k>>


(***************************************************************************)
(* Parse trees of one production step: a node, the rules it selected, and  *)
(* the child each selected rule produced.  The rule of identity i is, by   *)
(* the grammar the node roots:                                             *)
(*   Table:        the rule of place setting location i - 1;               *)
(*   DishBin:      a Mug_1 rule for odd i, a Plate_11in rule for even i;   *)
(*   PlaceSetting: the plate, cup, left_fork rule for i = 1, 2, 3.         *)
(***************************************************************************)
RuleOf(grammar, i) ==
    CASE grammar = "Table" -> Rule("PlaceSetting", PlaceSettingLocation(i - 1))
      [] grammar = "DishBin" ->
            Rule(IF i % 2 = 1 THEN "Mug_1" ELSE "Plate_11in", DishBinPose)
      [] grammar = "PlaceSetting" ->
            Rule(CASE i = 1 -> "Plate" [] i = 2 -> "Cup" [] OTHER -> "Fork",
                 <<>>)

\* the pose of the node that holds the rules
ParentOf(grammar) ==
    CASE grammar = "Table" -> TablePose
      [] grammar = "DishBin" -> DishBinPose
      [] grammar = "PlaceSetting" -> <<1, 0, 1>>

\* the node class each grammar's root is built on; an OrNode and an AndNode
\* hold the rules of a PlaceSetting
GrammarsOf(kind) ==
    IF kind = "IndependentSet" THEN {"Table", "DishBin"}
    ELSE {"PlaceSetting"}

\* the offsets a rule's sample site draws in a tree
TreeOffsets(grammar) ==
    IF grammar = "DishBin"
    THEN {<<0, 0, 0, 0, b, 0>> : b \in -MaxTheta..MaxTheta}
    ELSE {<<x, 0, t>> : x \in 0..MaxCoord, t \in 0..1}

\* rule(parent): the unobserved call
CallRule(grammar, self, parent, drawn) ==
    CASE grammar = "Table" ->
            PlaceSettingProductionRule_call(self, parent, NoProducts, drawn)
      [] grammar = "DishBin" ->
            DishBin_sample_products(self, parent, NoProducts, drawn)
      [] grammar = "PlaceSetting" ->
            ObjectProductionRule_call(self, parent, NoProducts, drawn)

\* rule.score_products(parent, products)
ScoreRule(grammar, self, parent, products) ==
    CASE grammar = "Table" ->
            PlaceSettingProductionRule_score_products(self, parent, products)
      [] grammar = "DishBin" ->
            DishBin_score_products(self, parent, products)
      [] grammar = "PlaceSetting" ->
            ObjectProductionRule_score_products(self, parent, products)

\* a sum of log-probabilities: the discrete part (of the node's choice) and
\* the offsets the Normal log-densities of the rules are taken at
LogProbSum(discrete, offsets) ==
    [kind |-> "sum", exc |-> "", discrete |-> discrete, offsets |-> offsets]
NoSum == [kind |-> "none", exc |-> "", discrete |-> NoResult, offsets |-> <<>>]
SumRaised(exc) ==
    [kind |-> "raise", exc |-> exc, discrete |-> NoResult, offsets |-> <<>>]

MkTree(op, grammar, children, total, trace) ==
    [op |-> op, grammar |-> grammar, children |-> children,
     total |-> total, trace |-> trace]
NoTree == MkTree("none", "", <<>>, NoSum, NoSum)

\* ParseTree.get_total_log_prob(): over the nodes of the tree, the sum of
\* the node's score_production_rules of the rules it selected and of each
\* selected rule's score_products of the child it produced
get_total_log_prob(self, production_rules, grammar, children) ==
    LET scores == [k \in 1..Len(children) |->
                      ScoreRule(grammar, children[k].rule, ParentOf(grammar),
                                children[k].products)]
    IN  {IF s.kind = "raise" THEN SumRaised(s.exc)
         ELSE IF \E k \in 1..Len(scores) : scores[k].kind = "raise"
         THEN SumRaised("IndexError")
         ELSE IF s.kind = "neg_inf"
                 \/ \E k \in 1..Len(scores) : scores[k].kind = "neg_inf"
         THEN LogProbSum(NegInf, <<>>)
         ELSE LogProbSum(s, [k \in 1..Len(scores) |-> scores[k].value]) :
         s \in score_production_rules(self, production_rules)}

\* the probability of the value the node's sample site drew, as a log-prob;
\* an AndNode has no sample site
SiteLogProb(self, drawn) ==
    CASE self.kind = "Or" -> LogProb(self.weights[drawn[1] + 1], self.total)
      [] self.kind = "And" -> LogProb(1, 1)
      [] self.kind = "CovaryingSet" ->
            LogProb(self.weights[drawn[1] + 1], self.total)
      [] self.kind = "IndependentSet" -> BernoulliLogProb(self.weights, drawn)

\* trace.log_prob_sum(): the sum over the sample sites of the trace of the
\* log-probability of the value drawn there
trace_log_prob_sum(self, drawn, children) ==
    LogProbSum(SiteLogProb(self, drawn),
               [k \in 1..Len(children) |-> children[k].drawn])

(***************************************************************************)
(* ProbabilisticSceneGrammarModel.model: the work-list expansion.  A node  *)
(* object is [id, class, depth, parent, rule]: id numbers the objects in   *)
(* the order they are created, parent and rule say which rule of which     *)
(* node produced it.  Beside the locals of model() the run keeps a record  *)
(* of what happened: the nodes made, the ids popped, the productions.      *)
(***************************************************************************)
\* TableNode.__init__(num_place_setting_locations=4)
num_place_setting_locations == 4

Node(id, class, depth, parent, rule) ==
    [id |-> id, class |-> class, depth |-> depth, parent |-> parent,
     rule |-> rule]

TableNode == Node(0, "TableNode", 0, -1, -1)

\* the number of production rules of a node
NumRules(n) ==
    CASE n.class = "TableNode" -> num_place_setting_locations
      [] n.class = "PlaceSetting" -> MaxObjects
      [] n.class = "TerminalNode" -> 0

\* the class of the node a rule of n produces: a TableNode's rules make a
\* PlaceSetting, a PlaceSetting's rules make a terminal object
ProductClass(n) ==
    IF n.class = "TableNode" THEN "PlaceSetting" ELSE "TerminalNode"

\* isinstance(node, TerminalNode)
IsTerminal(n) == n.class = "TerminalNode"

\* the values the "_exhaustive_set_sample" site of n can draw: the weights
\* are a learned parameter on the simplex, so every index can be drawn
ExhaustiveSetSupport(n) == 0..(2^NumRules(n) - 1)

\* the rule indices k with (selected_rules >> k) & 1, ascending
RECURSIVE ActiveRules(_, _, _)
ActiveRules(selected_rules, k, n) ==
    IF k >= n THEN <<>>
    ELSE (IF (selected_rules \div 2^k) % 2 = 1 THEN <<k>> ELSE <<>>)
         \o ActiveRules(selected_rules, k + 1, n)

\* ExhaustiveSetNode.sample_production_rule: output += rule(...) for each
\* active rule, in rule order; the objects made get the ids from next_id on
ExhaustiveSetNode_sample_production_rule(self, selected_rules, next_id) ==
    LET active == ActiveRules(selected_rules, 0, NumRules(self))
    IN  [i \in 1..Len(active) |->
            Node(next_id + i - 1, ProductClass(self), self.depth + 1,
                 self.id, active[i])]

\* the loop left while one node is still listed
LoopConditionOffByOne(nodes) == Len(nodes) > 1

\* while len(nodes) > 0
LoopCondition(nodes) == Len(nodes) > 0

\* nodes.pop() in place of nodes.pop(0)
PopLast(nodes) ==
    [node |-> nodes[Len(nodes)], nodes |-> SubSeq(nodes, 1, Len(nodes) - 1)]

\* nodes[0] read and left in the list
PopKept(nodes) == [node |-> Head(nodes), nodes |-> nodes]

\* node = nodes.pop(0)
Pop(nodes) == [node |-> Head(nodes), nodes |-> Tail(nodes)]

MkRun(pc, nodes, all_terminal_nodes, num_productions, iter_k, made, popped, productions) ==
    [pc |-> pc, nodes |-> nodes, all_terminal_nodes |-> all_terminal_nodes,
     num_productions |-> num_productions, iter_k |-> iter_k,
     made |-> made, popped |-> popped, productions |-> productions]

NoRun == MkRun("none", <<>>, <<>>, 0, 0, <<>>, <<>>, <<>>)

(***************************************************************************)
(* calc_score_and_backprob_async and core_sample_async.  The gradient of   *)
(* a parameter is kept as the set of what was added into it: worker w      *)
(* contributes the number 2^(w-1), so a gradient of 2^n - 1 holds every    *)
(* worker's contribution once.  The gradient tensors are in shared memory  *)
(* (p.grad.share_memory_()) and backward() adds into them in place, with   *)
(* no lock: an addition is a read and a later write.                       *)
(***************************************************************************)
Params == 1..MaxParams

\* the gradient worker w's backward pass adds to a parameter
Contribution(w) == 2^(w - 1)

\* a gradient left by an earlier step, before it is zeroed
StaleGrad == 2^MaxWorkers

\* a worker process: where it is in core_sample_async, the parameter its
\* backward pass is at, and the gradient value it has read
Worker(pc, param, read) == [pc |-> pc, param |-> param, read |-> read]

MkFit(pc, n, do_backprop, started, workers, grad, output_queue, done, losses, joined, wrote, stepped) ==
    [pc |-> pc, n |-> n, do_backprop |-> do_backprop, started |-> started,
     workers |-> workers, grad |-> grad, output_queue |-> output_queue,
     done |-> done, losses |-> losses, joined |-> joined, wrote |-> wrote,
     stepped |-> stepped]

NoFit == MkFit("none", 0, FALSE, 0, <<>>, [p \in Params |-> 0], <<>>, FALSE,
               <<>>, 0, {}, FALSE)

\* p.grad += c as the backward pass of one process completes it: the sum
\* of the value read earlier and the contribution is stored
AddInPlace(grad, p, read, c) == [grad EXCEPT ![p] = read + c]

(***************************************************************************)
(* The scene-generation drivers.  Planar coordinates are in units of 0.5,  *)
(* so 2.0 is 4 and 1.0 is 2; a pose is <<x, z, theta>>.                     *)
(***************************************************************************)
\* pose[0] > 2.0 or pose[0] < -2.0
x_limit == 4
\* pose[1] < 0.0
z_floor == 0
\* pose[1] > 1.0, the draw-samples driver
draw_z_limit == 2
\* pose[1] > 2.0, the bin-stacks driver
stacks_z_limit == 4

\* if pose[0] > 2.0 or pose[0] < -2.0 or pose[1] > z_limit or pose[1] < 0.0
OutOfBounds(pose, z_limit) ==
    \/ pose[1] > x_limit
    \/ pose[1] < -x_limit
    \/ pose[2] > z_limit
    \/ pose[2] < z_floor

\* for k in range(n_objects): ... raise ValueError(...)
BoundsCheckRaises(scene, z_limit) ==
    \E k \in 1..Len(scene) : OutOfBounds(scene[k], z_limit)

\* the poses a generated or projected object can have
ScenePoses ==
    {<<x, z, 0>> : x \in {-5, -4, 0, 4, 5}, z \in {-1, 0, 2, 3, 4, 5}}

Scenes == UNION {[1..n -> ScenePoses] : n \in 0..MaxSceneObjects}

MkDrv(driver, pc, iter, scene, error, raw, nonpen, static, outcome) ==
    [driver |-> driver, pc |-> pc, iter |-> iter, scene |-> scene,
     error |-> error, raw |-> raw, nonpen |-> nonpen, static |-> static,
     outcome |-> outcome]

NoDrv == MkDrv("none", "none", 0, <<>>, "none", <<>>, <<>>, <<>>, <<>>)

(***************************************************************************)
(* The training loop of probabilistic_scene_grammar_fitting.py.  A loss is *)
(* a number in 0..MaxLoss and np.infty is the number above them all; the   *)
(* value of the parameters is the number of optimizer steps applied.       *)
(***************************************************************************)
\* calc_score_and_backprob_async(train_dataset, n=2, ..., optimizer)
train_n == 2
\* calc_score_and_backprob_async(test_dataset, n=1, guide_gvs=guide_gvs)
test_n == 1
\* if (step % 5 == 0)
eval_every == 5

Losses == 0..MaxLoss

\* np.infty
Infty == MaxLoss + 1

\* a call that starts on the gradients as they are
BeginCallKeepingGrads(n, do_backprop, grad) ==
    MkFit("start", n, do_backprop, 0,
          [w \in 1..n |-> Worker("unstarted", 0, 0)], grad,
          <<>>, FALSE, <<>>, 0, {}, FALSE)

\* calc_score_and_backprob_async up to the first p.start(): with an
\* optimizer every p.grad is zeroed; the queue and the event are new
BeginCall(n, do_backprop, grad) ==
    MkFit("start", n, do_backprop, 0,
          [w \in 1..n |-> Worker("unstarted", 0, 0)],
          [p \in Params |-> IF do_backprop THEN 0 ELSE grad[p]],
          <<>>, FALSE, <<>>, 0, {}, FALSE)

MkLoop(pc, step, loss, loss_test, best_loss_yet, saved, evals, min_before, value, grad0, value0) ==
    [pc |-> pc, step |-> step, loss |-> loss, loss_test |-> loss_test,
     best_loss_yet |-> best_loss_yet, saved |-> saved, evals |-> evals,
     min_before |-> min_before, value |-> value, grad0 |-> grad0,
     value0 |-> value0]

NoLoop == MkLoop("none", 0, 0, 0, Infty, FALSE, 0, Infty, 0, [p \in Params |-> 0], 0)

Min2(a, b) == IF a < b THEN a ELSE b

(***************************************************************************)
(* ProjectToFeasibilityDist.__init__.  A row of pre_projection_params is   *)
(* <<x, z, theta, shape parameter>>; the solver and its Jacobian are       *)
(* outside the repository, so a call draws one of a few solvers.           *)
(***************************************************************************)
Identity(n) == [i \in 1..n |-> [j \in 1..n |-> IF i = j THEN 1 ELSE 0]]

\* what diff_nlp.ProjectMBPToFeasibility answers: qf at the three active
\* indices, a function of q0 there, and dqf_dq0 at those indices
Solvers ==
    { [name |-> "shift", dqf_dq0 |-> <<<<2, 0, 0>>, <<0, 2, 0>>, <<0, 0, 2>>>>],
      [name |-> "origin", dqf_dq0 |-> <<<<0, 0, 0>>, <<0, 0, 0>>, <<0, 0, 0>>>>] }

qf(solver, q0) ==
    IF solver.name = "shift" THEN <<q0[1] + 1, q0[2] + 1, q0[3] + 1>>
    ELSE <<0, 0, 0>>

\* a condition that looks at the class only
ProjectionRunsOnClassMatch(class_i, object_i, new_class_k, keep_going_k) ==
    class_i = new_class_k

\* if class_i == new_class[k] and (object_i == 0 or
\*     np.all(generated_data.keep_going[k, :] != 0.))
ProjectionRuns(class_i, object_i, new_class_k, keep_going_k) ==
    /\ class_i = new_class_k
    /\ \/ object_i = 0
       \/ \A j \in 1..Len(keep_going_k) : keep_going_k[j] # 0

\* new_params[:len(inds)] = torch.tensor(results.qf[inds])
ProjectedParams(solver, row) ==
    [i \in 1..Len(row) |-> IF i <= 3 THEN qf(solver, row)[i] ELSE row[i]]

\* new_params_derivs[i, :len(inds)] = results.dqf_dq0[ind, inds]
ProjectedDerivs(solver, n) ==
    [i \in 1..n |-> [j \in 1..n |->
        IF i <= 3 /\ j <= 3 THEN solver.dqf_dq0[i][j] ELSE Identity(n)[i][j]]]

MkProj(op, args, exc, projected, all_params, all_params_derivatives) ==
    [op |-> op, args |-> args, exc |-> exc, projected |-> projected,
     all_params |-> all_params,
     all_params_derivatives |-> all_params_derivatives]

NoProj == MkProj("none", <<>>, "", {}, <<>>, <<>>)

\* the loop over the rows of the batch
ProjectToFeasibilityDist_init(pre_projection_params, class_i, object_i, new_class, keep_going, base_environment_type, solver) ==
    LET rows == 1..Len(pre_projection_params)
        runs(k) == ProjectionRuns(class_i, object_i, new_class[k], keep_going[k])
        args == [pre_projection_params |-> pre_projection_params,
                 class_i |-> class_i, object_i |-> object_i,
                 new_class |-> new_class, keep_going |-> keep_going,
                 base_environment_type |-> base_environment_type,
                 solver |-> solver]
    IN  IF /\ base_environment_type \notin {"planar_bin", "planar_tabletop"}
           /\ \E k \in rows : runs(k)
        THEN MkProj("raised", args, "NotImplementedError", {}, <<>>, <<>>)
        ELSE MkProj("constructed", args, "", {k \in rows : runs(k)},
                 [k \in rows |->
                     IF runs(k) THEN ProjectedParams(solver, pre_projection_params[k])
                     ELSE pre_projection_params[k]],
                 [k \in rows |->
                     IF runs(k) THEN ProjectedDerivs(solver, Len(pre_projection_params[k]))
                     ELSE Identity(Len(pre_projection_params[k]))])

\* the rows, classes and flags a call is made with
ParamRows == {<<0, 0, 0, 5>>, <<1, 2, 3, 6>>}
Classes == {0, 1}
KeepGoingFlags == {0, 1}
EnvironmentTypes == {"planar_bin", "planar_tabletop", "table_setting"}

(***************************************************************************)
(* mbp_make_planar_tabletops_lines_multiprocessing.py.  A configuration    *)
(* of the bodies (q0, the solution, the positions of the plant context)    *)
(* is one number.  The solver is outside the repository: the positions it  *)
(* leaves in the plant context are the ones SetPositions put there or the  *)
(* ones of an evaluation it made, the last of which may be the solution.   *)
(***************************************************************************)
Configurations == {0, 1}

SolutionResults == {"kSolutionFound", "kIterationLimit"}

\* a test that accepts whatever the solve reports
AcceptsAnyResult(solve_result) == TRUE

\* if result == SolutionResult.kSolutionFound
Accepts(solve_result) == solve_result = "kSolutionFound"

\* one worker index of the pool: whether __call__ has run, how often, the
\* solve's report and what it put on the queue
Task(status, calls, solve_result, puts) ==
    [status |-> status, calls |-> calls, result |-> solve_result, puts |-> puts]

\* output_dict as it is put: the worker index and the pose written into
\* it, with the solver's solution next to it
OutputDict(worker_index, pose, solution) ==
    [worker_index |-> worker_index, pose |-> pose, solution |-> solution]

MkGen(pc, n_examples, tasks, output_queue, file, now, lost) ==
    [pc |-> pc, n_examples |-> n_examples, tasks |-> tasks,
     output_queue |-> output_queue, file |-> file, now |-> now, lost |-> lost]

NoGen == MkGen("none", 0, <<>>, <<>>, <<>>, 0, <<>>)

\* result.ready(): every worker index has been processed
Ready(g) == \A i \in 1..g.n_examples : g.tasks[i].status = "done"

\* while not result.ready()
LoopEnds(g) == Ready(g)

\* "env_%d" % int(round(time.time() * 1000))
EnvKey(now) == now

(***************************************************************************)
(* Names and sampling-site labels of the Table grammar.  A name is the     *)
(* sequence of the words its string has between underscores, so two names  *)
(* are equal exactly when the two strings are.                             *)
(***************************************************************************)
\* "%03d" % k
Fmt03(k) == <<"000", "001", "002", "003", "004", "005", "006", "007">>[k + 1]

\* a rule name that leaves the index out
RuleNameWithoutIndex(name, k) == name \o <<"prod">>

\* name="%s_prod_%03d" % (name, k)
RuleName(name, k) == name \o <<"prod", Fmt03(k)>>

\* the object names of PlaceSetting.object_types_by_name, as words
ObjectNames == {<<"plate">>, <<"cup">>, <<"left", "fork">>}

\* the orders in which object_types_by_name.keys() can list them
KeyOrders ==
    {o \in [0..2 -> ObjectNames] : \A i, j \in 0..2 : i # j => o[i] # o[j]}

\* self.name + "_independent_set_sample"
IndependentSetSite(name) == name \o <<"independent", "set", "sample">>

\* self.name + "_exhaustive_set_sample"
ExhaustiveSetSite(name) == name \o <<"exhaustive", "set", "sample">>

\* "%s_place_setting_offset" % self.name
PlaceSettingOffsetSite(rule_name) == rule_name \o <<"place", "setting", "offset">>

\* PlaceSetting(name=self.name + "_place_setting", ...)
PlaceSettingName(rule_name) == rule_name \o <<"place", "setting">>

\* "%s_pose" % (self.name)
PoseSite(rule_name) == rule_name \o <<"pose">>

\* self.object_type(name="%s_%s" % (self.name, self.object_name), ...)
ObjectName(rule_name, object_name) == rule_name \o object_name

\* a node of the expansion: its class and its name
NamedNode(class, name) == [class |-> class, name |-> name]

\* range(num_place_setting_locations), the default of Table.__init__
table_locations == 4

\* the rules of a node, by index
RuleIndices(n) ==
    IF n.class = "Table" THEN 0..(table_locations - 1)
    ELSE IF n.class = "PlaceSetting" THEN 0..2
    ELSE {}

\* the indices of a set in increasing order
RECURSIVE InOrder(_)
InOrder(S) ==
    IF S = {} THEN <<>>
    ELSE LET k == CHOOSE x \in S : \A y \in S : x <= y
         IN  <<k>> \o InOrder(S \ {k})

\* the site a node samples its subset at
SubsetSite(n) ==
    IF n.class = "Table" THEN IndependentSetSite(n.name)
    ELSE ExhaustiveSetSite(n.name)

\* the site the k-th rule of a node samples at when it is called
RuleSite(n, k) ==
    IF n.class = "Table" THEN PlaceSettingOffsetSite(RuleName(n.name, k))
    ELSE PoseSite(RuleName(n.name, k))

\* the node the k-th rule of a node produces
RuleProduct(n, k, order) ==
    IF n.class = "Table"
    THEN NamedNode("PlaceSetting", PlaceSettingName(RuleName(n.name, k)))
    ELSE NamedNode("Terminal", ObjectName(RuleName(n.name, k), order[k]))

MkExp(pc, order, nodes, node_names, site_labels) ==
    [pc |-> pc, order |-> order, nodes |-> nodes, node_names |-> node_names,
     site_labels |-> site_labels]

NoExp == MkExp("none", <<>>, <<>>, <<>>, <<>>)

Init ==
    /\ node = NoNode
    /\ call = NoCall
    /\ result = NoResult
    /\ pcall = NoPCall
    /\ presult = NoPResult
    /\ tree = NoTree
    /\ run = NoRun
    /\ fit = NoFit
    /\ drv = NoDrv
    /\ loop = NoLoop
    /\ proj = NoProj
    /\ gen = NoGen
    /\ exp = NoExp

ConstructOrNode ==
    /\ call.op = "none"
    /\ \E rules \in RuleLists, w \in SeqsUpTo(Weights, MaxRules) :
        \E o \in OrNode_init(rules, w) :
            /\ node' = o.node
            /\ result' = o.result
            /\ call' = MkCall("init", "Or", rules, w, <<>>, 0)
    /\ UNCHANGED otherThanNode

ConstructAndNode ==
    /\ call.op = "none"
    /\ \E rules \in RuleLists :
        \E o \in AndNode_init(rules) :
            /\ node' = o.node
            /\ result' = o.result
            /\ call' = MkCall("init", "And", rules, <<>>, <<>>, 0)
    /\ UNCHANGED otherThanNode

ConstructCovaryingSetNode(ruleLists, maxHints) ==
    /\ call.op = "none"
    /\ \E rules \in ruleLists, rw \in Weights :
        \E hints \in HintMaps(Len(rules), maxHints) :
        \E o \in CovaryingSetNode_init(rules, hints, rw) :
            /\ node' = o.node
            /\ result' = o.result
            /\ call' = MkCall("init", "CovaryingSet", rules, <<>>, hints, rw)
    /\ UNCHANGED otherThanNode

ConstructIndependentSetNode ==
    /\ call.op = "none"
    /\ \E rules \in RuleLists, probs \in SeqsUpTo(0..ProbDen, MaxRules) :
        \E o \in IndependentSetNode_init(rules, probs) :
            /\ node' = o.node
            /\ result' = o.result
            /\ call' = MkCall("init", "IndependentSet", rules, probs, <<>>, 0)
    /\ UNCHANGED otherThanNode

\* sample_production_rules(parent): no observation
SampleProductionRules ==
    /\ node.kind # "none"
    /\ call.op = "init"
    /\ \E o \in sample_production_rules(node, None) :
        /\ result' = o
        /\ call' = MkCall("sample", node.kind, <<>>, <<>>, <<>>, 0)
    /\ UNCHANGED <<node, otherThanNode>>

\* sample_production_rules(parent, obs_production_rules)
SampleObserved ==
    /\ node.kind # "none"
    /\ call.op = "init"
    /\ \E R \in ObsLists :
        \E o \in sample_production_rules(node, Obs(R)) :
            /\ result' = o
            /\ call' = MkCall("sample_obs", node.kind, R, <<>>, <<>>, 0)
    /\ UNCHANGED <<node, otherThanNode>>

\* score_production_rules(parent, production_rules)
ScoreProductionRules ==
    /\ node.kind # "none"
    /\ call.op = "init"
    /\ \E R \in ObsLists :
        \E o \in score_production_rules(node, R) :
            /\ result' = o
            /\ call' = MkCall("score", node.kind, R, <<>>, <<>>, 0)
    /\ UNCHANGED <<node, otherThanNode>>

\* score_production_rules(parent, sample_production_rules(parent)):
\* the outcome keeps the value the sample site drew
ScoreSampled ==
    /\ call.op = "sample"
    /\ result.kind = "rules"
    /\ \E o \in score_production_rules(node, result.rules) :
        /\ result' = [o EXCEPT !.drawn = result.drawn]
        /\ call' = MkCall("score_sampled", node.kind, result.rules,
                          <<>>, <<>>, 0)
    /\ UNCHANGED <<node, otherThanNode>>

\* The node operations: each node type built (a CovaryingSetNode from a
\* hint dictionary of at most one entry, which gives uniform weights and
\* weights with one combination singled out), then sampled and scored.
Next ==
    \/ ConstructOrNode
    \/ ConstructAndNode
    \/ ConstructCovaryingSetNode(RuleLists, 1)
    \/ ConstructIndependentSetNode
    \/ SampleProductionRules
    \/ SampleObserved
    \/ ScoreProductionRules
    \/ ScoreSampled

Spec == Init /\ [][Next]_vars

\* The CovaryingSetNode constructor over its whole input space: every
\* number of rules, remaining_weight and hint dictionary within the bounds.
ConstructCovaryingSetNodeAny ==
    ConstructCovaryingSetNode({FirstRules(n) : n \in 0..MaxRules}, MaxHints)

NextCtor == ConstructCovaryingSetNodeAny

SpecCtor == Init /\ [][NextCtor]_vars

(***************************************************************************)
(* The pose algebra and the pose-bearing rules, as actions.  A call is     *)
(* made once; what follows it is the call that inverts it.                 *)
(***************************************************************************)
\* chain_pose_transforms(p, q)
ChainPoseTransforms ==
    /\ pcall.op = "none"
    /\ \E p \in PlanarPoses, q \in PlanarPoses :
        /\ pcall' = PCall("chain", "", NoRule, p, NoProducts, q)
        /\ presult' = PValue(chain_pose_transforms(p, q))
    /\ UNCHANGED otherThanPose

\* chain_pose_transforms(invert_pose(p), abs) on the pose just chained
UnchainPoseTransforms ==
    /\ pcall.op = "chain"
    /\ pcall' = [pcall EXCEPT !.op = "unchain"]
    /\ presult' = PValue(chain_pose_transforms(invert_pose(pcall.parent),
                                               presult.value))
    /\ UNCHANGED otherThanPose

\* invert_pose(p)
InvertPose ==
    /\ pcall.op = "none"
    /\ \E p \in PlanarPoses :
        /\ pcall' = PCall("invert", "", NoRule, p, NoProducts, <<>>)
        /\ presult' = PValue(invert_pose(p))
    /\ UNCHANGED otherThanPose

\* chain_pose_transforms of p and the inverse just computed, either order
ChainWithInverse ==
    /\ pcall.op = "invert"
    /\ \/ /\ pcall' = [pcall EXCEPT !.op = "inverse_then_pose"]
          /\ presult' = PValue(chain_pose_transforms(presult.value,
                                                     pcall.parent))
       \/ /\ pcall' = [pcall EXCEPT !.op = "pose_then_inverse"]
          /\ presult' = PValue(chain_pose_transforms(pcall.parent,
                                                     presult.value))
    /\ UNCHANGED otherThanPose

\* PlaceSetting.ObjectProductionRule.__call__(parent): the site draws
CallObjectProductionRule ==
    /\ pcall.op = "none"
    /\ \E t \in object_types_by_name, parent \in RulePoses,
          drawn \in RulePoses :
        /\ pcall' = PCall("call", "PlaceSetting.ObjectProductionRule",
                          Rule(t, <<>>), parent, NoProducts, drawn)
        /\ presult' = ObjectProductionRule_call(Rule(t, <<>>), parent,
                                                NoProducts, drawn)
    /\ UNCHANGED otherThanPose

\* PlaceSetting.ObjectProductionRule.__call__(parent, obs_products): the
\* site is observed and draws nothing
CallObjectProductionRuleObserved ==
    /\ pcall.op = "none"
    /\ \E t \in object_types_by_name, parent \in RulePoses,
          obs \in ObsProductLists(object_types_by_name \cup {"PlaceSetting"},
                                  RulePoses) :
        /\ pcall' = PCall("call", "PlaceSetting.ObjectProductionRule",
                          Rule(t, <<>>), parent, ObsProducts(obs), <<>>)
        /\ presult' = ObjectProductionRule_call(Rule(t, <<>>), parent,
                                                ObsProducts(obs), <<>>)
    /\ UNCHANGED otherThanPose

\* Table.PlaceSettingProductionRule.__call__, with or without observed
\* products: the site draws in both
CallPlaceSettingProductionRule ==
    /\ pcall.op = "none"
    /\ \E k \in 0..3, drawn \in RulePoses,
          obs \in {NoProducts} \cup
                  {ObsProducts(o) :
                     o \in ObsProductLists({"PlaceSetting", "Plate"},
                                           RulePoses)} :
        LET self == Rule("PlaceSetting", PlaceSettingLocation(k))
        IN  /\ pcall' = PCall("call", "Table.PlaceSettingProductionRule",
                              self, TablePose, obs, drawn)
            /\ presult' = PlaceSettingProductionRule_call(self, TablePose,
                                                          obs, drawn)
    /\ UNCHANGED otherThanPose

\* the rule's inversion, applied to the child its call has just returned
RecoverPlanar ==
    /\ pcall.op = "call"
    /\ presult.kind = "products"
    /\ pcall.rule \in {"PlaceSetting.ObjectProductionRule",
                       "Table.PlaceSettingProductionRule"}
    /\ pcall' = [pcall EXCEPT !.op = "recover"]
    /\ presult' =
         IF pcall.rule = "PlaceSetting.ObjectProductionRule"
         THEN PValue(ObjectProductionRule_recover_rel_pose_from_abs_pose(
                         pcall.parent, presult.products[1].pose))
         ELSE PValue(
             PlaceSettingProductionRule_recover_rel_offset_from_abs_offset(
                 pcall.self, pcall.parent, presult.products[1].pose))
    /\ UNCHANGED otherThanPose

\* DishBin.ObjectProductionRule(name, pose, product_type, offset_dist)
ConstructObjectProductionRule ==
    /\ pcall.op = "none"
    /\ \E t \in DishBinProductTypes, pose \in FramePoses :
        /\ pcall' = PCall("init", "DishBin.ObjectProductionRule",
                          Rule(t, pose), <<>>, NoProducts, <<>>)
        /\ presult' = DishBin_ObjectProductionRule_init(pose, t)
    /\ UNCHANGED otherThanPose

\* DishBin.ObjectProductionRule.sample_products(parent)
SampleProducts ==
    /\ pcall.op = "none"
    /\ \E t \in DishBinProductTypes, pose \in FramePoses,
          parent \in FramePoses, drawn \in SpatialPoses :
        /\ pcall' = PCall("call", "DishBin.ObjectProductionRule",
                          Rule(t, pose), parent, NoProducts, drawn)
        /\ presult' = DishBin_sample_products(Rule(t, pose), parent,
                                              NoProducts, drawn)
    /\ UNCHANGED otherThanPose

\* DishBin.ObjectProductionRule.sample_products(parent, obs_products)
SampleProductsObserved ==
    /\ pcall.op = "none"
    /\ \E t \in DishBinProductTypes, pose \in FramePoses,
          parent \in FramePoses,
          obs \in ObsProductLists(DishBinProductTypes \cup {"PlaceSetting"},
                                  FramePoses \cup {<<0, 0, 0>>}) :
        /\ pcall' = PCall("call", "DishBin.ObjectProductionRule",
                          Rule(t, pose), parent, ObsProducts(obs), <<>>)
        /\ presult' = DishBin_sample_products(Rule(t, pose), parent,
                                              ObsProducts(obs), <<>>)
    /\ UNCHANGED otherThanPose

\* DishBin.ObjectProductionRule._recover_rel_offset_from_abs_offset,
\* applied to the child sample_products has just built
RecoverSpatial ==
    /\ pcall.op = "call"
    /\ presult.kind = "products"
    /\ pcall.rule = "DishBin.ObjectProductionRule"
    /\ ~pcall.obs.given
    /\ pcall' = [pcall EXCEPT !.op = "recover"]
    /\ presult' = PValue(DishBin_recover_rel_offset_from_abs_offset(
                             pcall.self, pcall.parent,
                             presult.products[1].pose))
    /\ UNCHANGED otherThanPose

\* score_products(parent, products) of the three rule classes
ScoreProducts ==
    /\ pcall.op = "none"
    /\ \/ \E t \in object_types_by_name, parent \in RulePoses,
             products \in ObsProductLists(
                 object_types_by_name \cup {"PlaceSetting"}, RulePoses) :
            /\ pcall' = PCall("score", "PlaceSetting.ObjectProductionRule",
                              Rule(t, <<>>), parent, ObsProducts(products),
                              <<>>)
            /\ presult' = ObjectProductionRule_score_products(
                              Rule(t, <<>>), parent, products)
       \/ \E k \in 0..3,
             products \in ObsProductLists({"PlaceSetting", "Plate"},
                                          RulePoses) :
            LET self == Rule("PlaceSetting", PlaceSettingLocation(k))
            IN  /\ pcall' = PCall("score", "Table.PlaceSettingProductionRule",
                                  self, TablePose, ObsProducts(products),
                                  <<>>)
                /\ presult' = PlaceSettingProductionRule_score_products(
                                  self, TablePose, products)
       \/ \E t \in DishBinProductTypes, pose \in FramePoses,
             parent \in FramePoses,
             products \in ObsProductLists(
                 DishBinProductTypes \cup {"PlaceSetting"}, FramePoses) :
            /\ pcall' = PCall("score", "DishBin.ObjectProductionRule",
                              Rule(t, pose), parent, ObsProducts(products),
                              <<>>)
            /\ presult' = DishBin_score_products(Rule(t, pose), parent,
                                                 products)
    /\ UNCHANGED otherThanPose

\* The planar pose algebra and the planar rules that use it.
NextPose ==
    \/ ChainPoseTransforms
    \/ UnchainPoseTransforms
    \/ InvertPose
    \/ ChainWithInverse
    \/ CallObjectProductionRule
    \/ CallPlaceSettingProductionRule
    \/ RecoverPlanar

SpecPose == Init /\ [][NextPose]_vars

\* The pose-bearing rules: called unobserved and observed, and inverted.
NextRule ==
    \/ CallObjectProductionRule
    \/ CallObjectProductionRuleObserved
    \/ CallPlaceSettingProductionRule
    \/ ConstructObjectProductionRule
    \/ SampleProducts
    \/ SampleProductsObserved
    \/ RecoverSpatial
    \/ ScoreProducts

SpecRule == Init /\ [][NextRule]_vars

(***************************************************************************)
(* A parse tree: the node is built and sampled (the actions above), each   *)
(* selected rule is called, and the tree is scored.                        *)
(***************************************************************************)
\* generate_unconditioned_parse_tree: the selected rules produce children
ExpandProducts ==
    /\ call.op = "sample"
    /\ result.kind = "rules"
    /\ tree.op = "none"
    /\ \E grammar \in GrammarsOf(node.kind) :
       \E drawn \in [1..Len(result.rules) -> TreeOffsets(grammar)] :
          tree' = MkTree("expanded", grammar,
                         [k \in 1..Len(result.rules) |->
                            LET self == RuleOf(grammar, result.rules[k])
                            IN  [rule |-> self, drawn |-> drawn[k],
                                 products |->
                                    CallRule(grammar, self, ParentOf(grammar),
                                             drawn[k]).products]],
                         NoSum, NoSum)
    /\ UNCHANGED otherThanTree

\* score, _ = parse_tree.get_total_log_prob(); trace.log_prob_sum()
GetTotalLogProb ==
    /\ tree.op = "expanded"
    /\ \E total \in get_total_log_prob(node, result.rules, tree.grammar,
                                       tree.children) :
          tree' = [tree EXCEPT !.op = "scored", !.total = total,
                               !.trace = trace_log_prob_sum(
                                             node, result.drawn,
                                             tree.children)]
    /\ UNCHANGED otherThanTree

NextTree ==
    \/ ConstructOrNode
    \/ ConstructAndNode
    \/ ConstructCovaryingSetNode(RuleLists, 1)
    \/ ConstructIndependentSetNode
    \/ SampleProductionRules
    \/ ExpandProducts
    \/ GetTotalLogProb

SpecTree == Init /\ [][NextTree]_vars

(***************************************************************************)
(* ProbabilisticSceneGrammarModel.model, one loop iteration per step.      *)
(***************************************************************************)
\* nodes = [TableNode()]; all_terminal_nodes = []; num_productions = 0
ModelStart ==
    /\ run.pc = "none"
    /\ run' = MkRun("loop", <<TableNode>>, <<>>, 0, 0, <<TableNode>>, <<>>,
                    <<>>)
    /\ UNCHANGED otherThanRun

\* one iteration of: while len(nodes) > 0
ModelIterate ==
    /\ run.pc = "loop"
    /\ LoopCondition(run.nodes)
    /\ LET p == Pop(run.nodes)
       IN  IF IsTerminal(p.node)
           THEN run' = [run EXCEPT
                    !.nodes = p.nodes,
                    !.all_terminal_nodes = Append(@, p.node),
                    !.iter_k = @ + 1,
                    !.popped = Append(@, p.node.id)]
           ELSE \E selected_rules \in ExhaustiveSetSupport(p.node) :
                LET new_node_classes ==
                        ExhaustiveSetNode_sample_production_rule(
                            p.node, selected_rules, Len(run.made))
                IN  run' = [run EXCEPT
                        !.nodes = p.nodes \o new_node_classes,
                        !.num_productions = @ + 1,
                        !.iter_k = @ + 1,
                        !.made = @ \o new_node_classes,
                        !.popped = Append(@, p.node.id),
                        !.productions =
                            Append(@, [node |-> p.node.id,
                                       label |-> run.num_productions,
                                       selected_rules |-> selected_rules])]
    /\ UNCHANGED otherThanRun

\* the loop ends: return all_terminal_nodes
ModelReturn ==
    /\ run.pc = "loop"
    /\ ~LoopCondition(run.nodes)
    /\ run' = [run EXCEPT !.pc = "done"]
    /\ UNCHANGED otherThanRun

NextModel ==
    \/ ModelStart
    \/ ModelIterate
    \/ ModelReturn

SpecModel == Init /\ [][NextModel]_vars

\* the loop of model() runs on: no step that can be taken waits forever
SpecModelFair == SpecModel /\ WF_vars(NextModel)

(***************************************************************************)
(* calc_score_and_backprob_async(dataset, n, guide_gvs, optimizer), the    *)
(* coordinator, and core_sample_async, its worker processes.               *)
(***************************************************************************)
\* the minibatch is selected; if do_backprop, every p.grad is zeroed
CalcStart ==
    /\ fit.pc = "none"
    /\ \E n \in 1..MaxWorkers, do_backprop \in BOOLEAN,
          stale \in {0, StaleGrad} :
          fit' = MkFit("start", n, do_backprop, 0,
                       [w \in 1..n |-> Worker("unstarted", 0, 0)],
                       [p \in Params |-> IF do_backprop THEN 0 ELSE stale],
                       <<>>, FALSE, <<>>, 0, {}, FALSE)
    /\ UNCHANGED otherThanFit

\* for env in envs: p = mp.Process(...); p.start()
StartProcess ==
    /\ fit.pc = "start"
    /\ IF fit.started < fit.n
       THEN fit' = [fit EXCEPT
                !.started = @ + 1,
                !.workers[fit.started + 1] = Worker("score", 0, 0)]
       ELSE fit' = [fit EXCEPT !.pc = "get"]
    /\ UNCHANGED otherThanFit

\* core_sample_async: score_sample_sync returns the score
WorkerScore(w) ==
    /\ fit.workers[w].pc = "score"
    /\ fit' = [fit EXCEPT !.workers[w] =
                  IF fit.do_backprop THEN Worker("read", 1, 0)
                  ELSE Worker("put", 0, 0)]
    /\ UNCHANGED otherThanFit

\* core_sample_async: score_sample_sync raises, the process ends
WorkerFails(w) ==
    /\ fit.workers[w].pc = "score"
    /\ fit' = [fit EXCEPT !.workers[w] = Worker("failed", 0, 0)]
    /\ UNCHANGED otherThanFit

\* total_score.backward(): the gradient of the next parameter is read
WorkerBackwardRead(w) ==
    /\ fit.workers[w].pc = "read"
    /\ fit' = [fit EXCEPT !.workers[w] =
                  Worker("write", fit.workers[w].param,
                         fit.grad[fit.workers[w].param])]
    /\ UNCHANGED otherThanFit

\* total_score.backward(): the sum is written back
WorkerBackwardWrite(w) ==
    /\ fit.workers[w].pc = "write"
    /\ LET p == fit.workers[w].param
       IN  fit' = [fit EXCEPT
               !.grad = AddInPlace(fit.grad, p, fit.workers[w].read,
                                   Contribution(w)),
               !.wrote = @ \cup {w},
               !.workers[w] = IF p < MaxParams THEN Worker("read", p + 1, 0)
                              ELSE Worker("put", 0, 0)]
    /\ UNCHANGED otherThanFit

\* output_queue.put(total_score.detach())
WorkerPut(w) ==
    /\ fit.workers[w].pc = "put"
    /\ fit' = [fit EXCEPT !.output_queue = Append(@, w),
                          !.workers[w] = Worker("wait", 0, 0)]
    /\ UNCHANGED otherThanFit

\* a worker that ends straight after its put
WorkerWaitIgnoringDone(w) ==
    /\ fit.workers[w].pc = "wait"
    /\ fit' = [fit EXCEPT !.workers[w] = Worker("exited", 0, 0)]
    /\ UNCHANGED otherThanFit

\* done.wait() returns once the event is set, and the process ends
WorkerWait(w) ==
    /\ fit.workers[w].pc = "wait"
    /\ fit.done
    /\ fit' = [fit EXCEPT !.workers[w] = Worker("exited", 0, 0)]
    /\ UNCHANGED otherThanFit

\* for k in range(n): losses.append(output_queue.get()); then done.set()
QueueGet ==
    /\ fit.pc = "get"
    /\ IF Len(fit.losses) < fit.n
       THEN /\ Len(fit.output_queue) > 0
            /\ fit' = [fit EXCEPT !.losses = Append(@, Head(fit.output_queue)),
                                  !.output_queue = Tail(@)]
       ELSE fit' = [fit EXCEPT !.done = TRUE, !.pc = "join"]
    /\ UNCHANGED otherThanFit

\* a join that returns while the process is alive
JoinWithoutWaiting ==
    /\ fit.pc = "join"
    /\ IF fit.joined < fit.n
       THEN fit' = [fit EXCEPT !.joined = @ + 1]
       ELSE fit' = [fit EXCEPT !.pc = "average"]
    /\ UNCHANGED otherThanFit

\* for p in processes: p.join()
Join ==
    /\ fit.pc = "join"
    /\ IF fit.joined < fit.n
       THEN /\ fit.workers[fit.joined + 1].pc \in {"exited", "failed"}
            /\ fit' = [fit EXCEPT !.joined = @ + 1]
       ELSE fit' = [fit EXCEPT !.pc = "average"]
    /\ UNCHANGED otherThanFit

\* loss = torch.stack(losses).mean(); if do_backprop: p.grad.data /= n and
\* optimizer(all_params_to_optimize); return loss
AverageAndStep ==
    /\ fit.pc = "average"
    /\ fit' = [fit EXCEPT !.pc = "returned", !.stepped = fit.do_backprop]
    /\ UNCHANGED otherThanFit

NextFit ==
    \/ CalcStart
    \/ StartProcess
    \/ \E w \in 1..MaxWorkers : w <= fit.n /\ WorkerScore(w)
    \/ \E w \in 1..MaxWorkers : w <= fit.n /\ WorkerFails(w)
    \/ \E w \in 1..MaxWorkers : w <= fit.n /\ WorkerBackwardRead(w)
    \/ \E w \in 1..MaxWorkers : w <= fit.n /\ WorkerBackwardWrite(w)
    \/ \E w \in 1..MaxWorkers : w <= fit.n /\ WorkerPut(w)
    \/ \E w \in 1..MaxWorkers : w <= fit.n /\ WorkerWait(w)
    \/ QueueGet
    \/ Join
    \/ AverageAndStep

SpecFit == Init /\ [][NextFit]_vars

\* every process that can take a step is scheduled in the end
SpecFitFair == SpecFit /\ WF_vars(NextFit)

(***************************************************************************)
(* __main__ of draw_samples_and_project_..._unstructured.py and of         *)
(* mbp_make_planar_bin_stacks.py.  drv.scene is the scene the bounds check *)
(* reads (scene_static, env); the files hold the env keys appended to      *)
(* them; drv.outcome holds how each finished scene ended.                  *)
(***************************************************************************)
DriverStart ==
    /\ drv.pc = "none"
    /\ \E driver \in {"draw_samples", "bin_stacks"} :
          drv' = [NoDrv EXCEPT !.driver = driver, !.pc = "generate"]
    /\ UNCHANGED otherThanDrv

\* the scene has ended; for _ in range(100)
NextScene(d, how) ==
    [d EXCEPT !.pc = IF d.iter < MaxScenes THEN "generate" ELSE "done",
              !.outcome = Append(@, how), !.error = "none", !.scene = <<>>]

\* model.model(), convert_vectorized_environment_to_yaml, and
\* ProjectEnvironmentToFeasibility, which returns the scenes or raises
DrawProject ==
    /\ drv.driver = "draw_samples"
    /\ drv.pc = "generate"
    /\ \/ \E scene_static \in Scenes :
             drv' = [drv EXCEPT !.iter = @ + 1, !.scene = scene_static,
                                !.pc = "check"]
       \/ drv' = [drv EXCEPT !.iter = @ + 1, !.scene = <<>>,
                             !.error = "projection", !.pc = "except"]
    /\ UNCHANGED otherThanDrv

\* the loop over scene_static's objects
DrawCheck ==
    /\ drv.driver = "draw_samples"
    /\ drv.pc = "check"
    /\ IF BoundsCheckRaises(drv.scene, draw_z_limit)
       THEN drv' = [drv EXCEPT !.error = "bounds", !.pc = "except"]
       ELSE drv' = [drv EXCEPT !.pc = "raw"]
    /\ UNCHANGED otherThanDrv

\* with open(...raw.yaml, "a"): yaml.dump({env_name: scene_yaml}), which
\* can raise
DrawAppendRaw ==
    /\ drv.driver = "draw_samples"
    /\ drv.pc = "raw"
    /\ \/ drv' = [drv EXCEPT !.raw = Append(@, drv.iter), !.pc = "nonpen"]
       \/ drv' = [drv EXCEPT !.error = "append", !.pc = "except"]
    /\ UNCHANGED otherThanDrv

\* with open(...nonpen.yaml, "a"): yaml.dump({env_name: scene_nonpen})
DrawAppendNonpen ==
    /\ drv.driver = "draw_samples"
    /\ drv.pc = "nonpen"
    /\ \/ drv' = [drv EXCEPT !.nonpen = Append(@, drv.iter), !.pc = "static"]
       \/ drv' = [drv EXCEPT !.error = "append", !.pc = "except"]
    /\ UNCHANGED otherThanDrv

\* with open(...static.yaml, "a"): yaml.dump({env_name: scene_static});
\* continue
DrawAppendStatic ==
    /\ drv.driver = "draw_samples"
    /\ drv.pc = "static"
    /\ \/ drv' = NextScene([drv EXCEPT !.static = Append(@, drv.iter)],
                           "accepted")
       \/ drv' = [drv EXCEPT !.error = "append", !.pc = "except"]
    /\ UNCHANGED otherThanDrv

\* except Exception as e: print "Unhandled exception: ", e
DrawExcept ==
    /\ drv.driver = "draw_samples"
    /\ drv.pc = "except"
    /\ drv' = NextScene(drv, drv.error)
    /\ UNCHANGED otherThanDrv

\* for example_num in range(1): env = generate_example()
StacksGenerate ==
    /\ drv.driver = "bin_stacks"
    /\ drv.pc = "generate"
    /\ drv.iter < 1
    /\ \E env \in Scenes :
          drv' = [drv EXCEPT !.iter = @ + 1, !.scene = env, !.pc = "check"]
    /\ UNCHANGED otherThanDrv

\* the loop over env's objects; the ValueError is not caught and ends the
\* program; nothing is written (the yaml.dump is commented out)
StacksCheck ==
    /\ drv.driver = "bin_stacks"
    /\ drv.pc = "check"
    /\ IF BoundsCheckRaises(drv.scene, stacks_z_limit)
       THEN drv' = [drv EXCEPT !.error = "bounds", !.pc = "done",
                               !.outcome = Append(@, "bounds")]
       ELSE drv' = [drv EXCEPT !.pc = "done",
                               !.outcome = Append(@, "accepted")]
    /\ UNCHANGED otherThanDrv

NextDriver ==
    \/ DriverStart
    \/ DrawProject
    \/ DrawCheck
    \/ DrawAppendRaw
    \/ DrawAppendNonpen
    \/ DrawAppendStatic
    \/ DrawExcept
    \/ StacksGenerate
    \/ StacksCheck

SpecDriver == Init /\ [][NextDriver]_vars

(***************************************************************************)
(* __main__ of probabilistic_scene_grammar_fitting.py: for step in         *)
(* range(500), a training call and, every fifth step, an evaluation call.  *)
(* loop.min_before is the least test loss of the earlier evaluations and   *)
(* loop.grad0, loop.value0 are the gradients and the parameter value at    *)
(* the start of the call in progress.                                      *)
(***************************************************************************)
\* p.grad = torch.zeros(p.shape) for every parameter; best_loss_yet =
\* np.infty; the first training call starts
LoopStart ==
    /\ loop.pc = "none"
    /\ fit.pc = "none"
    /\ loop' = [NoLoop EXCEPT !.pc = "train"]
    /\ fit' = BeginCall(train_n, TRUE, [p \in Params |-> 0])
    /\ UNCHANGED otherThanLoop

\* the end of a step: the next training call starts, or the loop is over
EndOfStep(l, grad) ==
    IF l.step + 1 < MaxSteps
    THEN [loop |-> [l EXCEPT !.pc = "train", !.step = @ + 1,
                             !.grad0 = BeginCall(train_n, TRUE, grad).grad,
                             !.value0 = l.value],
          fit |-> BeginCall(train_n, TRUE, grad)]
    ELSE [loop |-> [l EXCEPT !.pc = "done", !.step = @ + 1],
          fit |-> [fit EXCEPT !.pc = "none"]]

\* loss = calc_score_and_backprob_async(train_dataset, ...) has returned;
\* if step % 5 == 0 the evaluation call starts
TrainReturned ==
    /\ loop.pc = "train"
    /\ fit.pc = "returned"
    /\ LET value == loop.value + (IF fit.stepped THEN 1 ELSE 0)
       IN  IF loop.step % eval_every = 0
           THEN \E loss \in Losses :
                   /\ loop' = [loop EXCEPT !.pc = "test", !.loss = loss,
                                           !.value = value,
                                           !.grad0 = fit.grad,
                                           !.value0 = value]
                   /\ fit' = BeginCall(test_n, FALSE, fit.grad)
           ELSE LET next == EndOfStep([loop EXCEPT !.value = value], fit.grad)
                IN  loop' = next.loop /\ fit' = next.fit
    /\ UNCHANGED otherThanLoop

\* loss_test = calc_score_and_backprob_async(test_dataset, n=1, ...) has
\* returned; if loss_test < best_loss_yet: best_loss_yet = loss and the
\* parameter store is saved
TestReturned ==
    /\ loop.pc = "test"
    /\ fit.pc = "returned"
    /\ \E loss_test \in Losses :
          LET better == loss_test < loop.best_loss_yet
              l == [loop EXCEPT
                       !.loss_test = loss_test,
                       !.evals = @ + 1,
                       !.min_before = IF loop.evals = 0 THEN Infty
                                      ELSE Min2(@, loop.loss_test),
                       !.best_loss_yet = IF better THEN loop.loss ELSE @,
                       !.saved = better,
                       !.value = @ + (IF fit.stepped THEN 1 ELSE 0)]
              next == EndOfStep(l, fit.grad)
          IN  loop' = next.loop /\ fit' = next.fit
    /\ UNCHANGED otherThanLoop

NextLoop ==
    \/ LoopStart
    \/ StartProcess
    \/ \E w \in 1..MaxWorkers : w <= fit.n /\ WorkerScore(w)
    \/ \E w \in 1..MaxWorkers : w <= fit.n /\ WorkerFails(w)
    \/ \E w \in 1..MaxWorkers : w <= fit.n /\ WorkerBackwardRead(w)
    \/ \E w \in 1..MaxWorkers : w <= fit.n /\ WorkerBackwardWrite(w)
    \/ \E w \in 1..MaxWorkers : w <= fit.n /\ WorkerPut(w)
    \/ \E w \in 1..MaxWorkers : w <= fit.n /\ WorkerWait(w)
    \/ QueueGet
    \/ Join
    \/ AverageAndStep
    \/ TrainReturned
    \/ TestReturned

SpecLoop == Init /\ [][NextLoop]_vars

(***************************************************************************)
(* ProjectToFeasibilityDist(pre_projection_params, class_i, object_i,      *)
(* context, new_class, generated_data, base_environment_type)              *)
(***************************************************************************)
ConstructProjectToFeasibilityDist ==
    /\ proj.op = "none"
    /\ \E batch \in 1..MaxBatch, object_i \in 0..MaxEarlier, class_i \in Classes,
          base_environment_type \in EnvironmentTypes, solver \in Solvers :
          \E pre_projection_params \in [1..batch -> ParamRows],
             new_class \in [1..batch -> Classes],
             keep_going \in [1..batch -> [1..object_i -> KeepGoingFlags]] :
             proj' = ProjectToFeasibilityDist_init(pre_projection_params,
                         class_i, object_i, new_class, keep_going,
                         base_environment_type, solver)
    /\ UNCHANGED otherThanProj

NextProj == ConstructProjectToFeasibilityDist

SpecProj == Init /\ [][NextProj]_vars

(***************************************************************************)
(* __main__ of the tabletop generator: p.map_async(GeneratorWorker(...),   *)
(* range(n_examples)) and the polling loop, and GeneratorWorker.__call__.  *)
(***************************************************************************)
GenStart ==
    /\ gen.pc = "none"
    /\ \E n_examples \in 1..MaxExamples :
          gen' = MkGen("loop", n_examples,
                       [i \in 1..n_examples |-> Task("pending", 0, "", 0)],
                       <<>>, <<>>, 0, <<>>)
    /\ UNCHANGED otherThanGen

\* GeneratorWorker.__call__(worker_index): the scene is built, q0 is set
\* on the plant context, the program is solved; if a solution is found the
\* poses are read from mbp.GetPositions(mbp_context) and the scene is put
GeneratorWorker_call(worker_index) ==
    /\ gen.pc \in {"loop", "poll"}
    /\ gen.tasks[worker_index].status = "pending"
    /\ \E q0 \in Configurations, solution \in Configurations,
          solve_result \in SolutionResults, evaluated \in Configurations :
          \E positions \in {q0, evaluated, solution} :
             gen' = [gen EXCEPT
                 !.tasks[worker_index] =
                     Task("done", @.calls + 1, solve_result,
                          IF Accepts(solve_result) THEN @.puts + 1 ELSE @.puts),
                 !.output_queue =
                     IF Accepts(solve_result)
                     THEN Append(@, OutputDict(worker_index, positions, solution))
                     ELSE @]
    /\ UNCHANGED otherThanGen

\* while not result.ready():
PollingLoopTest ==
    /\ gen.pc = "loop"
    /\ gen' = [gen EXCEPT !.pc = IF LoopEnds(gen) THEN "done" ELSE "poll"]
    /\ UNCHANGED otherThanGen

\* if not output_queue.empty(): env = output_queue.get(timeout=0), and the
\* scene is appended to the file under the key of the millisecond it is
\* now, the one of the last append or a later one, or the exception of the
\* append is printed
PollingLoopBody ==
    /\ gen.pc = "poll"
    /\ IF Len(gen.output_queue) = 0
       THEN gen' = [gen EXCEPT !.pc = "loop"]
       ELSE LET env == Head(gen.output_queue)
            IN  \/ \E now \in {gen.now, gen.now + 1} :
                      gen' = [gen EXCEPT
                          !.pc = "loop",
                          !.now = now,
                          !.output_queue = Tail(@),
                          !.file = Append(@, [key |-> EnvKey(now), env |-> env])]
                \/ gen' = [gen EXCEPT
                       !.pc = "loop",
                       !.output_queue = Tail(@),
                       !.lost = Append(@, env)]
    /\ UNCHANGED otherThanGen

NextGen ==
    \/ GenStart
    \/ \E worker_index \in 1..MaxExamples :
          worker_index <= gen.n_examples /\ GeneratorWorker_call(worker_index)
    \/ PollingLoopTest
    \/ PollingLoopBody

SpecGen == Init /\ [][NextGen]_vars

(***************************************************************************)
(* The expansion of a Table root: a work-list of nodes; a node that is not *)
(* terminal samples a subset of its rules, each selected rule is called    *)
(* and its product joins the work-list.                                    *)
(***************************************************************************)
\* Table(): the root, named "table"
ExpansionStart ==
    /\ exp.pc = "none"
    /\ \E order \in KeyOrders :
          exp' = MkExp("expand", order, <<NamedNode("Table", <<"table">>)>>,
                       <<<<"table">>>>, <<>>)
    /\ UNCHANGED otherThanExp

\* a node is taken from the work-list; sample_production_rules and the
\* calls of the selected rules add their site labels and their products
ExpandNode ==
    /\ exp.pc = "expand"
    /\ IF Len(exp.nodes) = 0
       THEN exp' = [exp EXCEPT !.pc = "done"]
       ELSE LET n == Head(exp.nodes)
            IN  IF n.class = "Terminal"
                THEN exp' = [exp EXCEPT !.nodes = Tail(@)]
                ELSE \E selected \in SUBSET RuleIndices(n) :
                        LET ks == InOrder(selected)
                            products == [i \in 1..Len(ks) |->
                                            RuleProduct(n, ks[i], exp.order)]
                        IN  exp' = [exp EXCEPT
                                !.nodes = Tail(@) \o products,
                                !.node_names = @ \o
                                    [i \in 1..Len(ks) |-> products[i].name],
                                !.site_labels = @ \o <<SubsetSite(n)>> \o
                                    [i \in 1..Len(ks) |-> RuleSite(n, ks[i])]]
    /\ UNCHANGED otherThanExp

NextExp ==
    \/ ExpansionStart
    \/ ExpandNode

SpecExp == Init /\ [][NextExp]_vars

(***************************************************************************)
(* Properties.                                                             *)
(***************************************************************************)
NonMember(self, production_rules) ==
    \E i \in 1..Len(production_rules) :
        production_rules[i] \notin ToSet(self.production_rules)

\* a list that is a subset of the node's rules: members, none repeated
IsSubsetOfRules(self, production_rules) ==
    /\ ToSet(production_rules) \subseteq ToSet(self.production_rules)
    /\ Cardinality(ToSet(production_rules)) = Len(production_rules)

\* the 0-based positions, in the node's rule list, of the rules of a set
PositionsOf(self, ruleSet) ==
    {k \in 0..(Len(self.production_rules) - 1) :
        self.production_rules[k + 1] \in ruleSet}

\* the number whose bit k is 1 exactly for the k of a set of positions
RECURSIVE BitmaskOf(_)
BitmaskOf(positions) ==
    IF positions = {} THEN 0
    ELSE LET k == CHOOSE x \in positions : TRUE
         IN  2^k + BitmaskOf(positions \ {k})

\* the probability the closed form gives the selection a sample drew, as
\* the fraction [num, den]
ClosedForm(self, drawn) ==
    CASE self.kind = "Or" ->
            [num |-> self.weights[drawn[1] + 1],
             den |-> SumSeq(self.weights)]
      [] self.kind = "And" -> [num |-> 1, den |-> 1]
      [] self.kind = "CovaryingSet" ->
            [num |-> self.weights[drawn[1] + 1],
             den |-> SumSeq(self.weights)]
      [] self.kind = "IndependentSet" ->
            [num |-> ProdSeq([k \in 1..Len(drawn) |->
                                IF drawn[k] = 1 THEN self.weights[k]
                                ELSE ProbDen - self.weights[k]]),
             den |-> ProbDen^Len(drawn)]

\* C1: the rule list an unobserved sample returns, scored by the same
\* node, gets a finite log-probability, equal to the closed form of the
\* selection that was drawn; never -infinity.
C1_ScoreOfSampleIsClosedForm ==
    call.op = "score_sampled" =>
        /\ result.kind = "logp"
        /\ result.num * ClosedForm(node, result.drawn).den
             = ClosedForm(node, result.drawn).num * result.den

\* C2: a rule that is not in the node's own rule list, given to an OrNode,
\* a CovaryingSetNode or an IndependentSetNode, is scored -infinity and,
\* as an observation, fails an assertion; nothing else happens.
C2_NonMemberIsRejected ==
    (/\ call.op \in {"score", "sample_obs"}
     /\ call.kind \in {"Or", "CovaryingSet", "IndependentSet"}
     /\ NonMember(node, call.rules))
    => IF call.op = "score" THEN result = NegInf
       ELSE result = Raised("AssertionError")

\* C3: a CovaryingSetNode over n rules has exactly 2^n outcomes, outcome i
\* selecting rule k iff bit k of i is 1: no outcome outside 0..2^n-1 is
\* held or drawn, and no two outcomes select the same rules.
C3_ExactlyPowerSetOutcomes ==
    node.kind = "CovaryingSet" =>
        LET n == Len(node.production_rules)
        IN  /\ Len(node.weights) = 2^n
            /\ \A i, j \in 0..(Len(node.weights) - 1) :
                   i # j => CovaryingSetNode_select(node, i)
                            # CovaryingSetNode_select(node, j)
            /\ (call.op = "sample" /\ result.kind = "rules")
                   => result.drawn[1] \in 0..(2^n - 1)

\* C4: for every subset S of the rules of a CovaryingSetNode or an
\* IndependentSetNode (the empty and the full one too), sampling with S
\* observed encodes S (bitmask index, 0/1 vector) and returns exactly the
\* rules of S, from which the same selection is recovered.
C4_SubsetRoundTrip ==
    (/\ call.op = "sample_obs"
     /\ call.kind \in {"CovaryingSet", "IndependentSet"}
     /\ IsSubsetOfRules(node, call.rules))
    => /\ result.kind = "rules"
       /\ ToSet(result.rules) = ToSet(call.rules)
       /\ IsSubsetOfRules(node, result.rules)
       /\ call.kind = "CovaryingSet" =>
            /\ result.drawn
                 = <<BitmaskOf(PositionsOf(node, ToSet(call.rules)))>>
            /\ CovaryingSetNode_recover_selected_rules(node, result.rules)
                 = Val(result.drawn[1])
       /\ call.kind = "IndependentSet" =>
            /\ result.drawn
                 = [k \in 1..Len(node.production_rules) |->
                      IF node.production_rules[k] \in ToSet(call.rules)
                      THEN 1 ELSE 0]
            /\ IndependentSetNode_recover_selected_rules(node, result.rules)
                 = Val(result.drawn)

\* a CovaryingSetNode over two rules or more was given all its rules as
\* the observation, last rule first, and returned them
C4_Witness ==
    /\ call.op = "sample_obs"
    /\ call.kind = "CovaryingSet"
    /\ Len(node.production_rules) >= 2
    /\ IsSubsetOfRules(node, call.rules)
    /\ Len(call.rules) = Len(node.production_rules)
    /\ call.rules # node.production_rules
    /\ result.kind = "rules"
    /\ result.rules = node.production_rules

\* C5: whatever rule-set R is observed, a node of any type returns R
\* itself: it never returns a rule list that differs from R.
C5_ObservedSetIsReturned ==
    (/\ call.op = "sample_obs"
     /\ IsSubsetOfRules(node, call.rules)
     /\ result.kind = "rules")
    => ToSet(result.rules) = ToSet(call.rules)

\* the call was made in observed mode on a one-element list whose element
\* is of the rule's own product type
ObservedOwnType ==
    /\ pcall.op = "call"
    /\ pcall.obs.given
    /\ Len(pcall.obs.products) = 1
    /\ pcall.obs.products[1].type = pcall.self.object_type

\* C6: a pose-bearing rule called in observed mode on one product of its
\* own product type accepts it and returns one child that has exactly the
\* observed absolute pose.
C6_ObservationIsReproduced ==
    ObservedOwnType =>
        /\ presult.kind = "products"
        /\ Len(presult.products) = 1
        /\ presult.products[1].pose = pcall.obs.products[1].pose

\* C7: chaining invert_pose(p) onto chain_pose_transforms(p, q) gives q
\* back; p chained with invert_pose(p), in either order, is the identity
\* pose; and the offset a planar rule recovers from the child it built is
\* the offset that was chained onto the parent.
C7_PlanarChainInverseLaw ==
    /\ pcall.op = "unchain" => presult.value = pcall.drawn
    /\ pcall.op \in {"inverse_then_pose", "pose_then_inverse"} =>
           presult.value = <<0, 0, 0>>
    /\ pcall.op = "recover" /\ pcall.rule # "DishBin.ObjectProductionRule" =>
           presult.value = pcall.drawn

\* a turned, displaced p has been chained with a q and unchained again
C7_Witness ==
    /\ pcall.op = "unchain"
    /\ pcall.parent = <<1, -1, 1>>
    /\ pcall.drawn = <<1, 1, 2>>
    /\ presult.value = <<1, 1, 2>>

\* C8: the offset DishBin.ObjectProductionRule recovers from the absolute
\* pose sample_products built is the relative offset that was drawn.
C8_RecoverInvertsSampleProducts ==
    pcall.op = "recover" /\ pcall.rule = "DishBin.ObjectProductionRule" =>
        presult.value = pcall.drawn

\* the combination a hint tuple names: the set of the indices it lists
\* the product list is not exactly one product of the rule's product type
WrongProducts ==
    ~(/\ Len(pcall.obs.products) = 1
      /\ pcall.obs.products[1].type = pcall.self.object_type)

\* C11: score_products gives -infinity to a product list that is not one
\* product of the rule's type and a finite log-probability to one that
\* is; observed sampling on such a wrong list fails an assertion.
C11_WrongProductsAreRejected ==
    /\ pcall.op = "score" =>
           IF WrongProducts THEN presult = PNegInf
           ELSE presult.kind = "logp"
    /\ pcall.op = "call" /\ pcall.obs.given /\ WrongProducts =>
           presult = PRaised("AssertionError")

\* the two sums agree: the same discrete probability, the same offsets
SameSum(a, b) ==
    /\ a.kind = "sum" /\ b.kind = "sum"
    /\ a.discrete.kind = "logp" /\ b.discrete.kind = "logp"
    /\ a.discrete.num * b.discrete.den = b.discrete.num * a.discrete.den
    /\ a.offsets = b.offsets

\* C12: the total score of a parse tree is the sum of the local scores of
\* its nodes, each counted once, and so equals the sum of the
\* log-probabilities of the sample sites of the trace that produced it.
C12_TotalIsSumOfSiteLogProbs ==
    tree.op = "scored" => SameSum(tree.total, tree.trace)

\* no value occurs twice in a sequence
NoRepeat(seq) == \A i, j \in 1..Len(seq) : i # j => seq[i] # seq[j]

\* the ids of the nodes of a sequence
Ids(seq) == {seq[i].id : i \in 1..Len(seq)}

\* C13: every enqueued node is popped exactly once, every non-terminal is
\* sampled exactly once, no terminal is expanded, a non-terminal that
\* selects nothing enqueues nothing, and the list returned holds exactly
\* the terminal nodes produced, each once.
C13_EachNodeHandledOnce ==
    run.pc # "none" =>
        /\ NoRepeat(run.popped)
        /\ NoRepeat([i \in 1..Len(run.productions) |->
                        run.productions[i].node])
        /\ \A i \in 1..Len(run.productions) :
              /\ ~IsTerminal(run.made[run.productions[i].node + 1])
              /\ run.productions[i].selected_rules = 0 =>
                    \A j \in 1..Len(run.made) :
                        run.made[j].parent # run.productions[i].node
        /\ \A i \in 1..Len(run.popped) :
              ~IsTerminal(run.made[run.popped[i] + 1]) =>
                  \E j \in 1..Len(run.productions) :
                      run.productions[j].node = run.popped[i]
        /\ NoRepeat(run.all_terminal_nodes)
        /\ Ids(run.all_terminal_nodes) \subseteq Ids(run.made)
        /\ run.pc = "done" =>
              /\ {run.popped[i] : i \in 1..Len(run.popped)} = Ids(run.made)
              /\ Ids(run.all_terminal_nodes)
                   = {run.made[j].id : j \in {j \in 1..Len(run.made) :
                                                IsTerminal(run.made[j])}}

\* a run has ended in which a place setting selected nothing and another
\* one produced every object
C13_Witness ==
    /\ run.pc = "done"
    /\ \E i \in 2..Len(run.productions) :
          run.productions[i].selected_rules = 0
    /\ \E i \in 2..Len(run.productions) :
          run.productions[i].selected_rules = 2^MaxObjects - 1
    /\ Len(run.all_terminal_nodes) >= MaxObjects

\* the most pops of a run: the table, its place settings, their objects
MaxPops ==
    1 + num_place_setting_locations + num_place_setting_locations * MaxObjects

\* C14: whatever subsets are sampled, the expansion from the Table root
\* ends with the work-list empty, after at most 1 + n + n*m iterations.
C14_ExpansionTerminates ==
    /\ [](run.iter_k <= MaxPops)
    /\ [](run.pc = "done" => Len(run.nodes) = 0)
    /\ (run.pc = "loop") ~> (run.pc = "done")

\* a run has ended after the most iterations there can be
C14_Witness ==
    /\ run.pc = "done"
    /\ run.iter_k = MaxPops

\* C15: nodes are popped in the order they were enqueued, children are
\* enqueued in the rule order of their parent, every node of depth d is
\* expanded before any node of depth d + 1, and the k-th non-terminal
\* expanded gets production number k, from 0 on.
C15_BreadthFirstOrder ==
    run.pc # "none" =>
        /\ \A i \in 1..Len(run.popped) : run.popped[i] = i - 1
        /\ \A i, j \in 1..Len(run.made) :
              (i < j /\ run.made[i].parent = run.made[j].parent)
                  => run.made[i].rule < run.made[j].rule
        /\ \A i, j \in 1..Len(run.popped) :
              i < j => run.made[run.popped[i] + 1].depth
                         <= run.made[run.popped[j] + 1].depth
        /\ \A k \in 1..Len(run.productions) :
              run.productions[k].label = k - 1
        /\ run.num_productions = Len(run.productions)

\* three place settings were made, and the last popped of them has
\* produced after objects of the first were already waiting
C15_Witness ==
    /\ Len(run.productions) >= 4
    /\ run.productions[4].selected_rules > 0
    /\ run.productions[2].selected_rules = 2^MaxObjects - 1
    /\ Len(run.nodes) >= 3

\* C16: with an optimizer, whatever the interleaving of the workers'
\* backward passes, the gradient of each parameter the coordinator sees
\* after the barrier is the sum of the n workers' contributions.
C16_NoContributionIsLost ==
    (fit.pc = "average" /\ fit.do_backprop) =>
        \A p \in Params : fit.grad[p] = 2^fit.n - 1

\* C17: while any worker of the minibatch is still scoring, no worker has
\* written into the shared gradient storage.
C17_NoWriteBeforeBarrier ==
    (\E w \in 1..fit.n : fit.workers[w].pc = "score") => fit.wrote = {}

\* a worker has failed and nothing can move: the coordinator waits on the
\* queue, which is empty, and no worker is left that will put a loss
StuckOnFailedWorker ==
    /\ fit.pc = "get"
    /\ Len(fit.losses) < fit.n
    /\ Len(fit.output_queue) = 0
    /\ \E w \in 1..fit.n : fit.workers[w].pc = "failed"
    /\ \A w \in 1..fit.n : fit.workers[w].pc \in {"failed", "wait"}

\* C18: when a worker fails, the batch returns no loss, takes no optimizer
\* step and starts no process again, and it does not wait forever for the
\* loss that is missing.
C18_FailedWorkerFailsBatch ==
    /\ (\E w \in 1..fit.n : fit.workers[w].pc = "failed") =>
          /\ fit.pc # "returned"
          /\ ~fit.stepped
          /\ fit.started <= fit.n
    /\ ~StuckOnFailedWorker

InFile(file, key) == \E i \in 1..Len(file) : file[i] = key

\* C19: in every driver, a scene with an object whose x is outside
\* [-2.0, 2.0] or whose z is outside [0.0, 2.0] is rejected and written to
\* no file, and a scene with every object inside those bounds is not
\* rejected by the bounds check.
C19_BoundsRejection ==
    ((drv.pc \in {"raw", "except"} /\ drv.error \in {"none", "bounds"})
        \/ (drv.pc = "done" /\ drv.driver = "bin_stacks")) =>
        /\ BoundsCheckRaises(drv.scene, stacks_z_limit) =>
              /\ drv.error = "bounds"
              /\ ~InFile(drv.raw, drv.iter)
              /\ ~InFile(drv.nonpen, drv.iter)
              /\ ~InFile(drv.static, drv.iter)
        /\ ~BoundsCheckRaises(drv.scene, stacks_z_limit) =>
              drv.error # "bounds"

\* C20: a scene the draw-samples driver has finished with is in all three
\* files or in none of them; a scene that was rejected or whose projection
\* raised is in none.
C20_NoPartialScene ==
    \A key \in 1..Len(drv.outcome) :
        /\ InFile(drv.raw, key) = InFile(drv.nonpen, key)
        /\ InFile(drv.nonpen, key) = InFile(drv.static, key)
        /\ drv.outcome[key] \in {"bounds", "projection"} =>
              ~InFile(drv.raw, key)

\* C21: with an optimizer, the gradients are divided and the optimizer is
\* applied only when all n losses have been received, done is set and every
\* worker has been joined and has ended; it is applied once, as the call
\* returns, and never in a call without an optimizer.
C21_StepOnlyAfterBarrier ==
    /\ fit.stepped =>
          /\ fit.do_backprop
          /\ fit.pc = "returned"
          /\ Len(fit.losses) = fit.n
          /\ fit.done
          /\ fit.joined = fit.n
          /\ \A w \in 1..fit.n : fit.workers[w].pc = "exited"
    /\ (fit.pc = "returned" /\ fit.do_backprop) => fit.stepped

C21_Witness == fit.stepped /\ fit.n >= 2 /\ fit.wrote = 1..fit.n

\* C23: a call whose workers all finish scoring returns in the end, with
\* exactly n losses received; no worker ends before the coordinator has
\* received all n losses.
C23_CallReturns ==
    /\ [](\A w \in 1..fit.n :
             fit.workers[w].pc = "exited" => Len(fit.losses) = fit.n)
    /\ [](fit.pc = "returned" =>
             /\ Len(fit.losses) = fit.n
             /\ Len(fit.output_queue) = 0
             /\ fit.joined = fit.n)
    /\ (fit.pc = "start") ~>
          (fit.pc = "returned" \/ \E w \in 1..fit.n : fit.workers[w].pc = "failed")

C23_Witness ==
    /\ fit.pc = "returned"
    /\ fit.n >= 2
    /\ \A w \in 1..fit.n : fit.workers[w].pc = "exited"

\* C22: in the training loop, every gradient is zero while a training call
\* has started no backward pass, whatever the earlier calls left behind;
\* during an evaluation call no worker does a backward pass and the values
\* and gradients of the parameters stay as they were when it started.
C22_GradientsZeroedPerMinibatch ==
    /\ (loop.pc = "train" /\ fit.pc = "start" /\ fit.wrote = {}) =>
          \A p \in Params : fit.grad[p] = 0
    /\ loop.pc = "test" =>
          /\ fit.grad = loop.grad0
          /\ loop.value = loop.value0
          /\ ~fit.stepped
          /\ fit.wrote = {}
          /\ \A w \in 1..fit.n : fit.workers[w].pc \notin {"read", "write"}

\* a later training call starts its workers, after a training call whose
\* optimizer step used the gradients and after an evaluation call
C22_Witness ==
    /\ loop.pc = "train"
    /\ loop.step >= 1
    /\ loop.value >= 1
    /\ loop.evals >= 1
    /\ fit.pc = "start"
    /\ fit.started >= 1

\* C29: after every evaluation step best_loss_yet is the least test loss
\* seen so far, and the checkpoint was written at that step exactly when
\* its test loss is below every earlier test loss.
C29_BestLossIsMinimumTestLoss ==
    loop.evals > 0 =>
        /\ loop.best_loss_yet = Min2(loop.min_before, loop.loss_test)
        /\ loop.saved = (loop.loss_test < loop.min_before)

\* C24: in a constructed ProjectToFeasibilityDist the projection was run
\* on row k exactly when class_i is new_class[k] and object_i is 0 or every
\* earlier keep_going flag of the row is nonzero; any other row is the
\* input row with an identity Jacobian; a projected row has the solver's
\* result in its first three parameters and the input in the others.
C24_ShortCircuitPolicy ==
    proj.op = "constructed" =>
        \A k \in 1..Len(proj.all_params) :
            LET a == proj.args
                row == a.pre_projection_params[k]
                wanted ==
                    /\ a.class_i = a.new_class[k]
                    /\ \/ a.object_i = 0
                       \/ ~\E j \in 1..a.object_i : a.keep_going[k][j] = 0
            IN  /\ (k \in proj.projected) = wanted
                /\ ~wanted =>
                      /\ proj.all_params[k] = row
                      /\ proj.all_params_derivatives[k] = Identity(Len(row))
                /\ wanted =>
                      /\ SubSeq(proj.all_params[k], 1, 3) = qf(a.solver, row)
                      /\ SubSeq(proj.all_params[k], 4, Len(row))
                            = SubSeq(row, 4, Len(row))

\* a batch with a projected row next to a row short-circuited by an
\* earlier keep_going flag that is zero
C24_Witness ==
    /\ proj.op = "constructed"
    /\ proj.args.object_i > 0
    /\ \E k \in 1..Len(proj.all_params) : k \in proj.projected
    /\ \E k \in 1..Len(proj.all_params) :
          /\ k \notin proj.projected
          /\ proj.args.class_i = proj.args.new_class[k]

\* C25: each worker index is processed at most once, and once when the
\* pool is ready; it has put one scene if its solve reported a solution
\* and none otherwise, so the scenes put are as many as the indices whose
\* solve succeeded.
C25_OneSceneIffSolved ==
    gen.pc # "none" =>
        /\ \A i \in 1..gen.n_examples :
              /\ gen.tasks[i].calls <= 1
              /\ (gen.tasks[i].status = "done") = (gen.tasks[i].calls = 1)
              /\ gen.tasks[i].puts =
                    (IF gen.tasks[i].result = "kSolutionFound" THEN 1 ELSE 0)
        /\ Len(gen.output_queue) + Len(gen.file) + Len(gen.lost)
              = Cardinality({i \in 1..gen.n_examples :
                                gen.tasks[i].result = "kSolutionFound"})

C25_Witness ==
    /\ gen.pc = "done"
    /\ \E i \in 1..gen.n_examples : gen.tasks[i].result = "kSolutionFound"
    /\ \E i \in 1..gen.n_examples : gen.tasks[i].result = "kIterationLimit"

\* C26: every scene put on the output queue carries the pose of the
\* solver's solution.
C26_PoseIsTheSolution ==
    \A k \in 1..Len(gen.output_queue) :
        gen.output_queue[k].pose = gen.output_queue[k].solution

\* C27: when the polling loop has ended the output queue is empty and every
\* scene a worker has put is in the file exactly once.
C27_NoAcceptedSceneIsLost ==
    gen.pc = "done" =>
        /\ Len(gen.output_queue) = 0
        /\ \A i \in 1..gen.n_examples :
              Cardinality({k \in 1..Len(gen.file) :
                              gen.file[k].env.worker_index = i})
                 = gen.tasks[i].puts

\* C28: every scene appended to the file has a key that differs from the
\* key of every scene appended before it.
C28_KeysAreDistinct ==
    \A j, k \in 1..Len(gen.file) :
        j # k => gen.file[j].key # gen.file[k].key

\* C30: in an expansion of a Table root, whatever subsets are selected,
\* no two nodes have the same name, no two sampling sites have the same
\* label, and no node name is a site label.
C30_NamesAndSitesAreDistinct ==
    /\ NoRepeat(exp.node_names)
    /\ NoRepeat(exp.site_labels)
    /\ \A i \in 1..Len(exp.node_names), j \in 1..Len(exp.site_labels) :
          exp.node_names[i] # exp.site_labels[j]

\* every place setting location is used and every place setting has all of
\* its objects
C30_Witness ==
    /\ exp.pc = "done"
    /\ Len(exp.node_names) = 1 + table_locations + 3 * table_locations

CombinationOf(tuple) == BitmaskOf(ToSet(tuple))

\* the relative weight the hints and remaining_weight give a combination
HintedWeight(hints, rw, combination) ==
    IF \E i \in 1..Len(hints) : CombinationOf(hints[i].tuple) = combination
    THEN LET i == CHOOSE i \in 1..Len(hints) :
                      CombinationOf(hints[i].tuple) = combination
         IN  hints[i].val
    ELSE rw

\* the probabilities num/node.total sum to 1; every hinted combination has
\* its hint value over the total, every other one remaining_weight over it
NormalizedFromHints ==
    /\ result = Constructed
    /\ node.total > 0
    /\ SumSeq(node.weights) = node.total
    /\ \A i \in 1..Len(call.hints) :
          /\ CombinationOf(call.hints[i].tuple) < Len(node.weights)
          /\ node.weights[CombinationOf(call.hints[i].tuple) + 1]
               = call.hints[i].val
    /\ \A c \in 0..(Len(node.weights) - 1) :
          (\A i \in 1..Len(call.hints) :
              CombinationOf(call.hints[i].tuple) # c)
          => node.weights[c + 1] = call.rw

\* every tuple lists distinct indices, and no two tuples name the same
\* combination
WellFormedHints(hints) ==
    /\ \A i \in 1..Len(hints) :
          Cardinality(ToSet(hints[i].tuple)) = Len(hints[i].tuple)
    /\ \A i, j \in 1..Len(hints) :
          i # j => ToSet(hints[i].tuple) # ToSet(hints[j].tuple)

\* the sum of the relative weights of the combinations and of the one
\* weight the constructor holds beside them
RECURSIVE SumHinted(_, _, _)
SumHinted(hints, rw, c) ==
    IF c < 0 THEN 0
    ELSE HintedWeight(hints, rw, c) + SumHinted(hints, rw, c - 1)

C10_ZeroRulesIsAnError ==
    (/\ call.op = "init"
     /\ call.kind \in {"Or", "And", "CovaryingSet"}
     /\ Len(call.rules) = 0)
    => /\ result.kind = "raise"
       /\ node = NoNode

====
